---- MODULE Spec2Model ----
(***************************************************************************)
(* Model of the ESS tax calculation engine (lib/ess-calculations.ts):      *)
(* calculateRsuVestingTaxableIncome, processVestingAndSale,                *)
(* calculateCapitalGains, calculateCgtDiscount and checkThirtyDayRule.     *)
(*                                                                         *)
(* The engine is a set of synchronous functions.  A state holds one call   *)
(* (function name and arguments) and what the call returned or threw, the  *)
(* item the storage module keeps in the browser's localStorage, and the    *)
(* objects of a caller that passes its arguments by reference.             *)
(***************************************************************************)
EXTENDS Integers, Sequences, FiniteSets, TLC

VARIABLES call, ret, localStorage, heap

vars == <<call, ret, localStorage, heap>>

(***************************************************************************)
(* JavaScript numbers are IEEE 754 doubles.  A finite double is            *)
(* sign * m * 2^e for a natural number m.  The doubles n / 2^k with        *)
(* |n| < 2^31 and k <= 30 are the pairs <<n, 2^k>> in lowest terms; every  *)
(* other finite double is the triple <<sign, e, m>> with m odd, written    *)
(* as its digits to the base LimbBase, lowest first, and -0 is the triple  *)
(* <<-1, 0, <<>>>>.  <<1, 0>> and <<-1, 0>> are +/-Infinity and <<0, 0>>   *)
(* is NaN.  Each double has one representation, so = on numbers is         *)
(* Object.is, and === is = except that 0 and -0 are ===.                   *)
(* An operator computes the exact result and rounds it to the nearest      *)
(* double, ties to even; pairs are added and multiplied as integers when   *)
(* the integers fit, the result then being a pair and exact.               *)
(* Undefined is the value of an optional field that is absent; an          *)
(* arithmetic operator or comparison converts it to NaN.                   *)
(***************************************************************************)
NaN == <<0, 0>>

Undefined == <<0, -1>>

NegZero == <<-1, 0, <<>>>>

LimbBase == 32768

RECURSIVE Gcd(_, _)
Gcd(a, b) == IF b = 0 THEN a ELSE Gcd(b, a % b)

Abs(n) == IF n < 0 THEN -n ELSE n

Norm(n, d) ==
    IF d = 0 THEN <<IF n > 0 THEN 1 ELSE IF n < 0 THEN -1 ELSE 0, 0>>
    ELSE IF d < 0 THEN <<(-n) \div Gcd(Abs(n), Abs(d)), (-d) \div Gcd(Abs(n), Abs(d))>>
    ELSE <<n \div Gcd(Abs(n), Abs(d)), d \div Gcd(Abs(n), Abs(d))>>

Num(n) == <<n, 1>>

Zero == Num(0)

\* The operand converted to a number is NaN: undefined becomes NaN.
IsNaN(x) == x = NaN \/ x = Undefined

IsFinite(x) == Len(x) = 3 \/ x[2] > 0

IsZero(x) == x = Zero \/ x = NegZero

\* 1 for a positive number, +0 and +Infinity, -1 for the others.
SignOf(x) == IF Len(x) = 3 THEN x[1] ELSE IF x[1] < 0 THEN -1 ELSE 1

SignedZero(s) == IF s < 0 THEN NegZero ELSE Zero

\* a without the zeros it ends in.
BigTrim(a) ==
    SubSeq(a, 1, Cardinality({i \in 1..Len(a) : \E j \in i..Len(a) : a[j] # 0}))

Limb(a, i) == IF i >= 1 /\ i <= Len(a) THEN a[i] ELSE 0

\* a + b: digit i receives a carry when a lower digit j overflows and the
\* digits between j and i are all LimbBase - 1.
BigAdd(a, b) ==
    LET Sum(i) == Limb(a, i) + Limb(b, i)
        Carry(i) ==
            IF \E j \in 1..(i - 1) :
                   Sum(j) >= LimbBase /\ \A k \in (j + 1)..(i - 1) : Sum(k) = LimbBase - 1
            THEN 1 ELSE 0
    IN  IF a = <<>> THEN BigTrim(b)
        ELSE IF b = <<>> THEN BigTrim(a)
        ELSE BigTrim([i \in 1..((IF Len(a) > Len(b) THEN Len(a) ELSE Len(b)) + 1) |->
                         (Sum(i) + Carry(i)) % LimbBase])

\* a - b for a >= b: digit i lends when a lower digit j of a is below that
\* of b and the digits between j and i are equal.
BigSub(a, b) ==
    LET Borrow(i) ==
            IF \E j \in 1..(i - 1) :
                   a[j] < Limb(b, j) /\ \A k \in (j + 1)..(i - 1) : a[k] = Limb(b, k)
            THEN 1 ELSE 0
    IN  IF b = <<>> THEN a
        ELSE BigTrim([i \in 1..Len(a) |->
                         (a[i] - Limb(b, i) - Borrow(i) + LimbBase) % LimbBase])

\* -1, 0 or 1 as a is below, equal to or above b: their highest differing
\* digit decides.
BigCmp(a, b) ==
    LET Highest(i) == IF a[i] < b[i] THEN -1 ELSE 1
    IN  IF Len(a) # Len(b) THEN (IF Len(a) < Len(b) THEN -1 ELSE 1)
        ELSE IF a = b THEN 0
        ELSE Highest(CHOOSE i \in 1..Len(a) :
                         a[i] # b[i] /\ \A j \in (i + 1)..Len(a) : a[j] = b[j])

\* a * 2^k and a \div 2^k
BigShl(a, k) ==
    IF a = <<>> THEN <<>>
    ELSE [i \in 1..(k \div 15) |-> 0]
         \o BigTrim([i \in 1..(Len(a) + 1) |->
                (Limb(a, i) % 2^(15 - (k % 15))) * 2^(k % 15)
                + Limb(a, i - 1) \div 2^(15 - (k % 15))])

BigShr(a, k) ==
    IF k \div 15 >= Len(a) THEN <<>>
    ELSE BigTrim([i \in 1..(Len(a) - k \div 15) |->
             a[i + k \div 15] \div 2^(k % 15)
             + (Limb(a, i + k \div 15 + 1) % 2^(k % 15)) * 2^(15 - (k % 15))])

\* The number of binary digits of a.
BigBitLen(a) ==
    IF a = <<>> THEN 0
    ELSE 15 * (Len(a) - 1) + Cardinality({k \in 0..14 : 2^k <= a[Len(a)]})

\* The number of zeros the binary digits of a end in, for a > 0.
BigLowZeros(a) ==
    LET LowZeros(j) == 15 * (j - 1) + Cardinality({k \in 1..14 : a[j] % 2^k = 0})
    IN  LowZeros(CHOOSE i \in 1..Len(a) : a[i] # 0 /\ \A h \in 1..(i - 1) : a[h] = 0)

\* a * k for a digit k: the low halves of the digit products plus their
\* high halves one digit up.
BigMulDigit(a, k) ==
    IF k = 0 \/ a = <<>> THEN <<>>
    ELSE BigAdd([i \in 1..Len(a) |-> (a[i] * k) % LimbBase],
                <<0>> \o [i \in 1..Len(a) |-> (a[i] * k) \div LimbBase])

RECURSIVE BigMul(_, _)
BigMul(a, b) ==
    IF b = <<>> THEN <<>>
    ELSE BigAdd(BigMulDigit(a, b[1]), BigTrim(<<0>> \o BigMul(a, Tail(b))))

\* The digit of the quotient that the remainder r gives against d, whose
\* highest digit is at least LimbBase / 2: the estimate from the two highest
\* digits of r and the highest of d is at most 2 too large.
DivDigit(r, d) ==
    LET two == Limb(r, Len(d) + 1) * LimbBase + r[Len(d)]
        est == IF two \div d[Len(d)] >= LimbBase THEN LimbBase - 1 ELSE two \div d[Len(d)]
    IN  IF Len(r) < Len(d) THEN 0
        ELSE IF BigCmp(BigMulDigit(d, est), r) <= 0 THEN est
        ELSE IF BigCmp(BigMulDigit(d, est - 1), r) <= 0 THEN est - 1
        ELSE est - 2

\* Long division of n by d from digit i of n down: the quotient doubled,
\* plus 1 when a remainder is left.
RECURSIVE BigDivFrom(_, _, _, _, _)
PutDigit(n, d, i, r, digit, quotient) ==
    BigDivFrom(n, d, i - 1,
               IF digit = 0 THEN r ELSE BigSub(r, BigMulDigit(d, digit)),
               <<digit>> \o quotient)

BigDivFrom(n, d, i, rem, quotient) ==
    IF i = 0
    THEN BigAdd(BigShl(BigTrim(quotient), 1), IF rem = <<>> THEN <<>> ELSE <<1>>)
    ELSE PutDigit(n, d, i, BigTrim(<<n[i]>> \o rem),
                  DivDigit(BigTrim(<<n[i]>> \o rem), d), quotient)

\* 2 * (n \div d), plus 1 when d does not divide n, for n and d with their
\* digits moved up until the highest digit of d is at least LimbBase / 2.
BigDiv(n, d) ==
    IF Len(n) < Len(d) THEN (IF n = <<>> THEN <<>> ELSE <<1>>)
    ELSE BigDivFrom(n, d, Len(n) - Len(d) + 1, SubSeq(n, Len(n) - Len(d) + 2, Len(n)), <<>>)

(***************************************************************************)
(* A finite double is sign * m * 2^e for a natural number m.               *)
(***************************************************************************)
Unpack(x) ==
    IF Len(x) = 3 THEN [s |-> x[1], e |-> x[2], m |-> x[3]]
    ELSE [s |-> IF x[1] < 0 THEN -1 ELSE 1, e |-> -Cardinality({k \in 1..30 : 2^k <= x[2]}),
          m |-> BigTrim(<<Abs(x[1]) % LimbBase, (Abs(x[1]) \div LimbBase) % LimbBase,
                          Abs(x[1]) \div (LimbBase * LimbBase)>>)]

\* The double sign * m * 2^e for m of at most 53 binary digits, in its
\* one representation: m is made odd, and the number is a pair where a
\* pair can hold it. Infinity from 2^1024.
RECURSIVE Pack(_, _, _)
Pack(s, m, e) ==
    IF m = <<>> THEN SignedZero(s)
    ELSE IF m[1] % 2 = 0 THEN Pack(s, BigShr(m, BigLowZeros(m)), e + BigLowZeros(m))
    ELSE IF e >= 0 /\ BigBitLen(m) + e <= 31
    THEN <<s * (m[1] + LimbBase * Limb(m, 2) + LimbBase * LimbBase * Limb(m, 3)) * 2^e, 1>>
    ELSE IF e < 0 /\ e >= -30 /\ BigBitLen(m) <= 31
    THEN <<s * (m[1] + LimbBase * Limb(m, 2) + LimbBase * LimbBase * Limb(m, 3)), 2^(-e)>>
    ELSE IF e + BigBitLen(m) - 1 > 1023 THEN <<s, 0>>
    ELSE <<s, e, m>>

\* The double nearest to sign * m * 2^e, ties to even: 53 binary
\* digits are kept, fewer below 2^-1022, and the cut digits of m, those
\* below its digit number cut, add 1 when they are more than half, or half
\* with the digit above them set.
RoundToDouble(s, m, e) ==
    LET cut == IF BigBitLen(m) - 53 > -1074 - e THEN BigBitLen(m) - 53 ELSE -1074 - e
        Digit(k) == (Limb(m, k \div 15 + 1) \div 2^(k % 15)) % 2
    IN  IF m = <<>> THEN SignedZero(s)
        ELSE IF cut <= 0 THEN Pack(s, m, e)
        ELSE Pack(s, BigAdd(BigShr(m, cut),
                            IF /\ Digit(cut - 1) = 1
                               /\ BigLowZeros(m) < cut - 1 \/ Digit(cut) = 1
                            THEN <<1>> ELSE <<>>), e + cut)

\* The integers a and b can be multiplied: the product is at most 2^31 - 1.
Fits(a, b) == a = 0 \/ Abs(b) <= 2147483647 \div Abs(a)

\* u + v, both taken as multiples of 2^low. The smaller number is below
\* half a unit in the last place of the larger when their highest digits
\* are more than 64 places apart.
AddDoubles(u, v) ==
    LET low == IF u.e <= v.e THEN u.e ELSE v.e
    IN  IF (u.e + BigBitLen(u.m)) - (v.e + BigBitLen(v.m)) > 64 THEN Pack(u.s, u.m, u.e)
        ELSE IF (v.e + BigBitLen(v.m)) - (u.e + BigBitLen(u.m)) > 64 THEN Pack(v.s, v.m, v.e)
        ELSE IF u.s = v.s
        THEN RoundToDouble(u.s, BigAdd(BigShl(u.m, u.e - low), BigShl(v.m, v.e - low)), low)
        ELSE IF BigCmp(BigShl(u.m, u.e - low), BigShl(v.m, v.e - low)) = 0 THEN Zero
        ELSE IF BigCmp(BigShl(u.m, u.e - low), BigShl(v.m, v.e - low)) > 0
        THEN RoundToDouble(u.s, BigSub(BigShl(u.m, u.e - low), BigShl(v.m, v.e - low)), low)
        ELSE RoundToDouble(v.s, BigSub(BigShl(v.m, v.e - low), BigShl(u.m, u.e - low)), low)

\* "x + y"
Add(x, y) ==
    IF IsNaN(x) \/ IsNaN(y) THEN NaN
    ELSE IF ~IsFinite(x) THEN (IF IsFinite(y) \/ x = y THEN x ELSE NaN)
    ELSE IF ~IsFinite(y) THEN y
    ELSE IF IsZero(x) THEN (IF IsZero(y) /\ (x = Zero \/ y = Zero) THEN Zero ELSE y)
    ELSE IF IsZero(y) THEN x
    ELSE IF /\ Len(x) = 2 /\ Len(y) = 2
            /\ x[2] >= y[2] /\ Abs(x[1]) <= 1073741823
            /\ Abs(y[1]) <= 1073741823 \div (x[2] \div y[2])
    THEN Norm(x[1] + y[1] * (x[2] \div y[2]), x[2])
    ELSE IF /\ Len(x) = 2 /\ Len(y) = 2
            /\ x[2] < y[2] /\ Abs(y[1]) <= 1073741823
            /\ Abs(x[1]) <= 1073741823 \div (y[2] \div x[2])
    THEN Norm(x[1] * (y[2] \div x[2]) + y[1], y[2])
    ELSE AddDoubles(Unpack(x), Unpack(y))

\* "-x"
Neg(x) ==
    IF IsNaN(x) THEN NaN
    ELSE IF x = Zero THEN NegZero
    ELSE IF Len(x) = 3 THEN (IF x = NegZero THEN Zero ELSE <<-x[1], x[2], x[3]>>)
    ELSE <<-x[1], x[2]>>

\* "x - y"
Sub(x, y) == Add(x, Neg(y))

\* "x * y"
Mul(x, y) ==
    IF IsNaN(x) \/ IsNaN(y) THEN NaN
    ELSE IF ~IsFinite(x) \/ ~IsFinite(y)
    THEN (IF IsZero(x) \/ IsZero(y) THEN NaN ELSE <<SignOf(x) * SignOf(y), 0>>)
    ELSE IF IsZero(x) \/ IsZero(y) THEN SignedZero(SignOf(x) * SignOf(y))
    ELSE IF /\ Len(x) = 2 /\ Len(y) = 2
            /\ Fits(x[1], y[1]) /\ x[2] <= 2^30 \div y[2]
    THEN Norm(x[1] * y[1], x[2] * y[2])
    ELSE RoundToDouble(SignOf(x) * SignOf(y), BigMul(Unpack(x).m, Unpack(y).m),
                       Unpack(x).e + Unpack(y).e)

\* u / v: the quotient of u.m * 2^places by v.m has 57 or 58 binary digits
\* before the one that tells of a remainder.
DivPlaces(u, v, places) ==
    RoundToDouble(u.s * v.s,
                  BigDiv(BigShl(u.m, places + 15 * Len(v.m) - BigBitLen(v.m)),
                         BigShl(v.m, 15 * Len(v.m) - BigBitLen(v.m))),
                  u.e - v.e - places - 1)

\* "x / y"
Div(x, y) ==
    IF IsNaN(x) \/ IsNaN(y) THEN NaN
    ELSE IF ~IsFinite(x)
    THEN (IF IsFinite(y) THEN <<SignOf(x) * SignOf(y), 0>> ELSE NaN)
    ELSE IF ~IsFinite(y) THEN SignedZero(SignOf(x) * SignOf(y))
    ELSE IF IsZero(y)
    THEN (IF IsZero(x) THEN NaN ELSE <<SignOf(x) * SignOf(y), 0>>)
    ELSE IF IsZero(x) THEN SignedZero(SignOf(x) * SignOf(y))
    ELSE DivPlaces(Unpack(x), Unpack(y),
                   56 + BigBitLen(Unpack(y).m) - BigBitLen(Unpack(x).m))

\* -1, 0 or 1 as u is below, equal to or above v, for finite nonzero
\* doubles unpacked.
CmpDoubles(u, v) ==
    IF u.s # v.s THEN u.s
    ELSE IF u.e + BigBitLen(u.m) # v.e + BigBitLen(v.m)
    THEN (IF u.e + BigBitLen(u.m) < v.e + BigBitLen(v.m) THEN -u.s ELSE u.s)
    ELSE IF u.e <= v.e THEN u.s * BigCmp(u.m, BigShl(v.m, v.e - u.e))
    ELSE u.s * BigCmp(BigShl(u.m, u.e - v.e), v.m)

\* "x < y": false when either side is NaN.
Lt(x, y) ==
    IF IsNaN(x) \/ IsNaN(y) THEN FALSE
    ELSE IF ~IsFinite(x) THEN x[1] < 0 /\ x # y
    ELSE IF ~IsFinite(y) THEN y[1] > 0
    ELSE IF IsZero(x) THEN ~IsZero(y) /\ SignOf(y) > 0
    ELSE IF IsZero(y) THEN SignOf(x) < 0
    ELSE IF Len(x) = 2 /\ Len(y) = 2 /\ Fits(x[1], y[2]) /\ Fits(y[1], x[2])
    THEN x[1] * y[2] < y[1] * x[2]
    ELSE CmpDoubles(Unpack(x), Unpack(y)) < 0

Gt(x, y) == Lt(y, x)

\* "x <= y": false when either side is NaN.
Le(x, y) == ~IsNaN(x) /\ ~IsNaN(y) /\ ~Lt(y, x)

\* Math.floor: a number that is no pair is sign * m * 2^e with m odd, an
\* integer when e >= 0 and none otherwise.
MathFloor(x) ==
    IF IsNaN(x) THEN NaN
    ELSE IF ~IsFinite(x) \/ IsZero(x) THEN x
    ELSE IF Len(x) = 2 THEN Num(x[1] \div x[2])
    ELSE IF x[2] >= 0 THEN x
    ELSE IF x[1] > 0 THEN Pack(1, BigShr(x[3], -x[2]), 0)
    ELSE Pack(-1, BigAdd(BigShr(x[3], -x[2]), <<1>>), 0)

\* Math.round: the nearest integer, a half rounds towards +Infinity;
\* floor(x + 1/2) computed without rounding, -0 when that is 0 and x < 0.
MathRound(x) ==
    IF IsNaN(x) THEN NaN
    ELSE IF ~IsFinite(x) \/ IsZero(x) THEN x
    ELSE IF Len(x) = 2
    THEN (IF 2 * (x[1] % x[2]) < x[2] THEN Num(x[1] \div x[2])
          ELSE IF x[1] \div x[2] = -1 THEN NegZero
          ELSE Num(x[1] \div x[2] + 1))
    ELSE IF x[2] >= 0 THEN x
    ELSE IF -x[2] > BigBitLen(x[3]) + 1 THEN SignedZero(x[1])
    ELSE IF x[1] > 0
    THEN Pack(1, BigShr(BigAdd(x[3], BigShl(<<1>>, -x[2] - 1)), -x[2]), 0)
    ELSE IF BigCmp(x[3], BigShl(<<1>>, -x[2] - 1)) <= 0 THEN NegZero
    ELSE Pack(-1, BigShr(BigAdd(BigSub(x[3], BigShl(<<1>>, -x[2] - 1)),
                                BigSub(BigShl(<<1>>, -x[2]), <<1>>)), -x[2]), 0)

\* Math.round(x * 100) / 100
Round2(x) == Div(MathRound(Mul(x, Num(100))), Num(100))

\* !x for a number or undefined: undefined, 0, -0 and NaN are falsy.
Falsy(x) == x = Undefined \/ IsZero(x) \/ x = NaN

Frac(n, d) == Div(Num(n), Num(d))

\* "x || 0" and the destructuring default "x = 0".
OrZero(x) == IF Falsy(x) THEN Zero ELSE x

DefaultZero(x) == IF x = Undefined THEN Zero ELSE x

(***************************************************************************)
(* Dates.  A date string 'YYYY-MM-DDTHH:00:00Z' ('YYYY-MM-DD' when HH is   *)
(* 0) is the tuple <<y, m, d, h>>.  Every instant of the model is a whole  *)
(* hour, so times are counted in ticks of one hour (MsPerTick              *)
(* milliseconds): DateGetTime is new Date(s).getTime() / MsPerTick, and    *)
(* the day length 1000 * 3600 * 24 ms is TicksPerDay ticks.  Differences,  *)
(* comparisons and floor(difference / day length) are the same in ticks    *)
(* as in milliseconds.  A string that is no date (a month outside 1..12,   *)
(* a day outside 1..31, an hour outside 0..24) gives an Invalid Date,      *)
(* whose time is NaN; a day past the end of its month runs on into the     *)
(* next month and hour 24 is midnight of the next day.  NoDate is an       *)
(* absent date, also an Invalid Date.                                      *)
(***************************************************************************)
NoDate == <<0, 0, 0, 0>>

MsPerTick == 3600000

\* "1000 * 3600 * 24" milliseconds
TicksPerDay == (1000 * 3600 * 24) \div MsPerTick

\* The time of a valid date, in ticks: the days from 1970-01-01 to the day
\* d of the month m of the year y, and the hour.
DateTicks(s) ==
    LET DaysFromCivil(y, m, d) ==
            LET yy  == IF m <= 2 THEN y - 1 ELSE y
                era == yy \div 400
                yoe == yy - era * 400
                mp  == (m + 9) % 12
                doy == (153 * mp + 2) \div 5 + d - 1
                doe == yoe * 365 + yoe \div 4 - yoe \div 100 + doy
            IN  era * 146097 + doe - 719468
    IN  DaysFromCivil(s[1], s[2], s[3]) * 24 + s[4]

\* NaN for a date string that does not parse; the hour 24 parses.
DateGetTime(s) ==
    IF s[2] \in 1..12 /\ s[3] \in 1..31 /\ s[4] \in 0..24 THEN Num(DateTicks(s)) ELSE NaN

(***************************************************************************)
(* Results.  A call either returns a value ([status |-> "ok", ...]) or     *)
(* throws ([status |-> "error", kind, message]).  The code throws plain    *)
(* Error objects; the kind is the error kind the message stands for.       *)
(***************************************************************************)
Throw(kind, message) == [status |-> "error", kind |-> kind, message |-> message]

IsOk(r) == r.status = "ok"

IsError(r) == r.status = "error"

NotCalled == [status |-> "pending"]

(***************************************************************************)
(* checkThirtyDayRule(vestingDate, saleDate)                               *)
(***************************************************************************)
\* "saleDateTime < vestDate"
SaleBeforeVesting_NotChecked(saleDateTime, vestDate) == FALSE

SaleBeforeVesting(saleDateTime, vestDate) == Lt(saleDateTime, vestDate)

\* "const applies = daysBetween <= 30"
ThirtyDayApplies_Exclusive(daysBetween) == Lt(daysBetween, Num(30))

ThirtyDayApplies(daysBetween) == Le(daysBetween, Num(30))

checkThirtyDayRule(vestingDate, saleDate) ==
    LET vestDate       == DateGetTime(vestingDate)
        saleDateTime   == DateGetTime(saleDate)
        timeDifference == Sub(saleDateTime, vestDate)
        daysBetween    == MathFloor(Div(timeDifference, Num(TicksPerDay)))
        applies        == ThirtyDayApplies(daysBetween)
    IN  IF SaleBeforeVesting(saleDateTime, vestDate)
        THEN Throw("InvalidDateOrder", "Sale date cannot be before vesting date")
        ELSE [status      |-> "ok",
              applies     |-> applies,
              daysBetween |-> daysBetween,
              vestingDate |-> vestingDate,
              saleDate    |-> saleDate,
              reason      |-> IF applies
                              THEN <<"Sale occurred within 30 days of vesting", daysBetween>>
                              ELSE <<"Sale occurred after 30-day period", daysBetween>>]

(***************************************************************************)
(* calculateCgtDiscount(acquisitionDate, saleDate, grossCapitalGain)       *)
(***************************************************************************)
\* "saleDateTime < acquisitionDateTime"
SaleBeforeAcquisition_NotChecked(saleDateTime, acquisitionDateTime) == FALSE

SaleBeforeAcquisition(saleDateTime, acquisitionDateTime) ==
    Lt(saleDateTime, acquisitionDateTime)

\* "const eligible = holdingPeriodDays > 365"
DiscountEligible_Inclusive(holdingPeriodDays) == Le(Num(365), holdingPeriodDays)

DiscountEligible(holdingPeriodDays) == Gt(holdingPeriodDays, Num(365))

\* "const discountRate = eligible && grossCapitalGain > 0 ? 0.5 : 0"
DiscountRate_LossesToo(eligible, grossCapitalGain) ==
    IF eligible THEN Frac(1, 2) ELSE Zero

DiscountRate(eligible, grossCapitalGain) ==
    IF eligible /\ Gt(grossCapitalGain, Zero) THEN Frac(1, 2) ELSE Zero

calculateCgtDiscount(acquisitionDate, saleDate, grossCapitalGain) ==
    LET acquisitionDateTime == DateGetTime(acquisitionDate)
        saleDateTime        == DateGetTime(saleDate)
        timeDifference      == Sub(saleDateTime, acquisitionDateTime)
        holdingPeriodDays   == MathFloor(Div(timeDifference, Num(TicksPerDay)))
        eligible            == DiscountEligible(holdingPeriodDays)
        discountRate        == DiscountRate(eligible, grossCapitalGain)
        discountedCapitalGain == Mul(grossCapitalGain, Sub(Num(1), discountRate))
    IN  IF SaleBeforeAcquisition(saleDateTime, acquisitionDateTime)
        THEN Throw("InvalidDateOrder", "Sale date cannot be before acquisition date")
        ELSE [status                |-> "ok",
              eligible              |-> eligible,
              holdingPeriodDays     |-> holdingPeriodDays,
              discountRate          |-> discountRate,
              grossCapitalGain      |-> grossCapitalGain,
              discountedCapitalGain |-> Round2(discountedCapitalGain)]

(***************************************************************************)
(* convertUsdToAud(usdAmount, exchangeRate, conversionDate)                *)
(***************************************************************************)
\* "exchangeRate <= 0"
RateNotPositive_ZeroAccepted(exchangeRate) == Lt(exchangeRate, Zero)

RateNotPositive(exchangeRate) == Le(exchangeRate, Zero)

\* "const audAmount = usdAmount / exchangeRate"
AudAmount_Inverted(usdAmount, exchangeRate) == Div(exchangeRate, usdAmount)

AudAmount(usdAmount, exchangeRate) == Div(usdAmount, exchangeRate)

convertUsdToAud(usdAmount, exchangeRate, conversionDate) ==
    IF Lt(usdAmount, Zero)
    THEN Throw("InvalidInput", "Amount must be non-negative")
    ELSE IF RateNotPositive(exchangeRate)
    THEN Throw("InvalidInput", "Exchange rate must be greater than 0")
    ELSE [status            |-> "ok",
          originalAmount    |-> usdAmount,
          originalCurrency  |-> "USD",
          \* "Math.round(audAmount * 100) / 100"
          convertedAmount   |-> Round2(AudAmount(usdAmount, exchangeRate)),
          convertedCurrency |-> "AUD",
          exchangeRate      |-> exchangeRate,
          conversionDate    |-> conversionDate]

(***************************************************************************)
(* convertShareEventValue(sharePrice, quantity, sourceCurrency,            *)
(*                        targetCurrency, exchangeRate, conversionDate)    *)
(* The function reads the system clock ("new Date()") when the currencies  *)
(* are equal and no conversion date is given; now is the instant the clock *)
(* shows during the call.                                                  *)
(***************************************************************************)
\* The object returned when "sourceCurrency === targetCurrency".
SameCurrencyValue(originalAmount, sourceCurrency, targetCurrency, conversionDate, now) ==
    [status            |-> "ok",
     originalAmount    |-> originalAmount,
     originalCurrency  |-> sourceCurrency,
     convertedAmount   |-> originalAmount,
     convertedCurrency |-> targetCurrency,
     exchangeRate      |-> Num(1),
     \* "conversionDate || new Date().toISOString().split('T')[0]": the
     \* date given, or the UTC calendar date of now.
     conversionDate    |-> IF conversionDate # NoDate THEN conversionDate
                           ELSE <<now[1], now[2], now[3], 0>>]

\* "if (!exchangeRate)"
RateMissing(exchangeRate) == Falsy(exchangeRate)

\* "if (sourceCurrency === 'USD' && targetCurrency === 'AUD')"
SupportedPair_Any(sourceCurrency, targetCurrency) == TRUE

SupportedPair(sourceCurrency, targetCurrency) ==
    sourceCurrency = "USD" /\ targetCurrency = "AUD"

\* "Handle currency conversion case": the currencies differ.
ConvertedValue(originalAmount, sourceCurrency, targetCurrency, exchangeRate, conversionDate) ==
    IF RateMissing(exchangeRate)
    THEN Throw("MissingExchangeRate", "Exchange rate required for currency conversion")
    ELSE IF conversionDate = NoDate
    THEN Throw("MissingConversionDate", "Conversion date required for currency conversion")
    ELSE IF SupportedPair(sourceCurrency, targetCurrency)
    THEN convertUsdToAud(originalAmount, exchangeRate, conversionDate)
    ELSE Throw("UnsupportedConversion",
               <<"Conversion from", sourceCurrency, "to", targetCurrency, "not supported">>)

convertShareEventValue(sharePrice, quantity, sourceCurrency, targetCurrency, exchangeRate, conversionDate, now) ==
    IF sourceCurrency = targetCurrency
    THEN SameCurrencyValue(Mul(sharePrice, quantity), sourceCurrency, targetCurrency,
                           conversionDate, now)
    ELSE ConvertedValue(Mul(sharePrice, quantity), sourceCurrency, targetCurrency,
                        exchangeRate, conversionDate)

(***************************************************************************)
(* calculateRsuVestingTaxableIncome(event, saleEvents)                     *)
(* An absent saleEvents argument and an empty list take the same path and  *)
(* are both the empty sequence; the result's saleEvents is undefined       *)
(* exactly when no sale was processed, and is then the empty sequence.     *)
(***************************************************************************)

\* [...saleEvents].sort((a, b) => getTime(a.saleDate) - getTime(b.saleDate)):
\* the sort of a copy as the runtime does it for a list shorter than 64.  It
\* takes the longest run the list begins with (reversed when strictly
\* descending) and places each later element by binary search.  A list of
\* valid dates comes out ascending by sale date, equal dates in input
\* order; with a date that is no date the comparator gives NaN, which
\* counts as 0, and the result is what these comparisons make of it.

\* The comparator's value is negative for (a, b).
SortsBefore(a, b) == Lt(Sub(DateGetTime(a.saleDate), DateGetTime(b.saleDate)), Zero)

SortByDate(saleEvents) ==
    LET RECURSIVE RunLength(_, _, _)
        RECURSIVE InsertionPoint(_, _, _, _)
        RECURSIVE BinaryInsertionSort(_, _)
        \* The length of the run list begins with, list[idx] being the next
        \* element to compare with the one before it.
        RunLength(list, idx, isDescending) ==
            IF idx > Len(list) THEN idx - 1
            ELSE IF SortsBefore(list[idx], list[idx - 1]) = isDescending
            THEN RunLength(list, idx + 1, isDescending)
            ELSE idx - 1
        Reverse(list) == [i \in 1..Len(list) |-> list[Len(list) + 1 - i]]
        \* The list with its first runLength elements made ascending.
        MakeRun(list, isDescending, runLength) ==
            IF isDescending
            THEN Reverse(SubSeq(list, 1, runLength))
                     \o SubSeq(list, runLength + 1, Len(list))
            ELSE list
        \* The place of pivot among list[left .. right - 1].
        InsertionPoint(list, pivot, left, right) ==
            IF left >= right THEN left
            ELSE IF SortsBefore(pivot, list[left + ((right - left) \div 2)])
            THEN InsertionPoint(list, pivot, left, left + ((right - left) \div 2))
            ELSE InsertionPoint(list, pivot, left + ((right - left) \div 2) + 1, right)
        \* list[start] moved to place.
        MoveTo(list, start, place) ==
            SubSeq(list, 1, place - 1) \o <<list[start]>>
                \o SubSeq(list, place, start - 1) \o SubSeq(list, start + 1, Len(list))
        \* The elements from start on placed among those before them.
        BinaryInsertionSort(list, start) ==
            IF start > Len(list) THEN list
            ELSE BinaryInsertionSort(
                     MoveTo(list, start, InsertionPoint(list, list[start], 1, start)),
                     start + 1)
        SortFromRun(list, isDescending, runLength) ==
            BinaryInsertionSort(MakeRun(list, isDescending, runLength), runLength + 1)
    IN  IF Len(saleEvents) < 2 THEN saleEvents
        ELSE SortFromRun(saleEvents, SortsBefore(saleEvents[2], saleEvents[1]),
                 RunLength(saleEvents, 3, SortsBefore(saleEvents[2], saleEvents[1])))

\* A vesting event, a sale event and an array are objects, and a function
\* is passed references to them.  objects maps each reference to what the
\* object holds.  The engine assigns to no field of an event, so an array
\* holds its sale events as values.

\* "[...saleEvents]": a new array object with the elements of the array at
\* ref, and the reference to it, which is written <<"copy", ref>>.
SpreadCopy_SameArray(objects, ref) == [heap |-> objects, ref |-> ref]

SpreadCopy(objects, ref) ==
    [heap |-> [r \in DOMAIN objects \cup {<<"copy", ref>>} |->
                  IF r \in DOMAIN objects THEN objects[r] ELSE objects[ref]],
     ref  |-> <<"copy", ref>>]

\* ".sort((a, b) => ...)": Array.prototype.sort sorts the array it is called
\* on in place and returns the reference it was called on.
ArraySort(array) == [array EXCEPT !.heap[array.ref] = SortByDate(@)]

\* "currency === 'USD' && exchangeRate"
UsdWithRate(currency, exchangeRate) == currency = "USD" /\ ~Falsy(exchangeRate)

\* "Math.round((amount / exchangeRate) * 100) / 100" for a USD amount with a
\* rate, the amount itself otherwise.
AmountAud(amount, currency, exchangeRate) ==
    IF UsdWithRate(currency, exchangeRate)
    THEN Round2(Div(amount, exchangeRate))
    ELSE amount

\* "saleProceedsAud - costBaseForSoldShares - totalFeesAud"
SaleAdjustedIncome(saleEvent, costBase, sharesVested, grossProceeds, totalFees) ==
    Sub(Sub(AmountAud(grossProceeds, saleEvent.currency, saleEvent.exchangeRate),
            Mul(costBase, Div(saleEvent.sharesSold, sharesVested))),
        AmountAud(totalFees, saleEvent.currency, saleEvent.exchangeRate))

\* The 30-day branch of the loop body: the sale's income, or the throw.
ThirtyDaySaleIncome(saleEvent, costBase, sharesVested) ==
    IF ~UsdWithRate(saleEvent.currency, saleEvent.exchangeRate) /\ saleEvent.currency # "AUD"
    THEN Throw("MissingExchangeRate",
               "Exchange rate required for USD sales in 30-day rule calculation")
    ELSE [status |-> "ok",
          saleAdjustedIncome |->
              SaleAdjustedIncome(saleEvent, costBase, sharesVested,
                  Mul(saleEvent.sharesSold, saleEvent.salePricePerShare),
                  Add(OrZero(saleEvent.brokerageCommission),
                      OrZero(saleEvent.supplementalFees)))]

\* "if (thirtyDayRule.applies)": the sale date becomes the taxing point.
TaxedAtSale_Always(thirtyDayRule) == TRUE

TaxedAtSale(thirtyDayRule) == thirtyDayRule.applies

\* "adjustedTaxableIncome - vestingIncomeForSoldSharesAud + saleAdjustedIncome"
\* (adjusted is the running adjustedTaxableIncome.)
AdjustTaxableIncome_KeepVesting(adjusted, taxableIncome, saleEvent, sharesVested, saleAdjustedIncome) ==
    Add(adjusted, saleAdjustedIncome)

AdjustTaxableIncome(adjusted, taxableIncome, saleEvent, sharesVested, saleAdjustedIncome) ==
    Add(Sub(adjusted, Mul(taxableIncome, Div(saleEvent.sharesSold, sharesVested))),
        saleAdjustedIncome)

\* "totalSharesSold += saleEvent.sharesSold"
AddSharesSold_Overwrite(totalSharesSold, saleEvent) == saleEvent.sharesSold

AddSharesSold(totalSharesSold, saleEvent) == Add(totalSharesSold, saleEvent.sharesSold)

\* "processedSaleEvents.push(...)" and "totalSharesSold += ...": the loop
\* state after the sale.  acc is the loop state: adjustedTaxableIncome,
\* processedSaleEvents, totalSharesSold.
PushSaleEvent(acc, saleEvent, thirtyDayRule, adjusted, saleAdjustedIncome) ==
    [status |-> "ok",
     adjustedTaxableIncome |-> adjusted,
     processedSaleEvents |->
         Append(acc.processedSaleEvents,
                [saleEvent |-> saleEvent,
                 thirtyDayRule |-> thirtyDayRule,
                 adjustedTaxableIncome |-> saleAdjustedIncome]),
     totalSharesSold |-> AddSharesSold(acc.totalSharesSold, saleEvent)]

\* The body of "if (thirtyDayRule.applies) { ... }", income being the sale's
\* income or the throw.
ApplyThirtyDaySale(event, taxableIncome, acc, saleEvent, thirtyDayRule, income) ==
    IF IsError(income) THEN income
    ELSE PushSaleEvent(acc, saleEvent, thirtyDayRule,
             AdjustTaxableIncome(acc.adjustedTaxableIncome, taxableIncome, saleEvent,
                                 event.sharesVested, income.saleAdjustedIncome),
             income.saleAdjustedIncome)

\* The loop body after the allocation check, thirtyDayRule being what
\* checkThirtyDayRule returned or threw.
ProcessCheckedSale(event, taxableIncome, costBase, acc, saleEvent, thirtyDayRule) ==
    IF IsError(thirtyDayRule) THEN thirtyDayRule
    ELSE IF TaxedAtSale(thirtyDayRule)
         THEN ApplyThirtyDaySale(event, taxableIncome, acc, saleEvent, thirtyDayRule,
                  ThirtyDaySaleIncome(saleEvent, costBase, event.sharesVested))
         ELSE PushSaleEvent(acc, saleEvent, thirtyDayRule, acc.adjustedTaxableIncome, Zero)

\* One iteration of "for (const saleEvent of sortedSales)".
ProcessSaleEvent(event, taxableIncome, costBase, acc, saleEvent) ==
    IF Gt(Add(acc.totalSharesSold, saleEvent.sharesSold), event.sharesVested)
    THEN Throw("OverAllocation", "Cannot sell more shares than were vested")
    ELSE ProcessCheckedSale(event, taxableIncome, costBase, acc, saleEvent,
             checkThirtyDayRule(event.vestDate, saleEvent.saleDate))

RECURSIVE ProcessSaleEvents(_, _, _, _, _, _)
ProcessSaleEvents(event, taxableIncome, costBase, sortedSales, i, acc) ==
    IF IsError(acc) \/ i > Len(sortedSales) THEN acc
    ELSE ProcessSaleEvents(event, taxableIncome, costBase, sortedSales, i + 1,
             ProcessSaleEvent(event, taxableIncome, costBase, acc, sortedSales[i]))

\* "taxableIncomeOriginal / exchangeRate" for a USD event, else unchanged.
VestingIncomeAud(taxableIncomeOriginal, currency, exchangeRate) ==
    IF UsdWithRate(currency, exchangeRate)
    THEN Div(taxableIncomeOriginal, exchangeRate)
    ELSE taxableIncomeOriginal

\* The returned object, loop being the loop state after the last sale or
\* the throw that ended the loop.
TaxableIncomeResult(event, marketValue, costBase, loop) ==
    IF IsError(loop) THEN loop
    ELSE [status          |-> "ok",
          taxableIncome   |-> loop.adjustedTaxableIncome,
          currency        |-> IF UsdWithRate(event.currency, event.exchangeRate)
                              THEN "AUD" ELSE event.currency,
          calculation     |-> [marketValue  |-> marketValue,
                               costBase     |-> costBase,
                               sharesVested |-> event.sharesVested,
                               sharePrice   |-> event.sharePrice],
          saleEvents      |-> loop.processedSaleEvents,
          remainingShares |-> Sub(event.sharesVested, loop.totalSharesSold)]

\* The function from "let adjustedTaxableIncome = taxableIncome" on:
\* taxableIncome is the vesting income in the result currency, and
\* sortedSales the objects with the reference to the array the loop runs
\* over.  It gives the objects after the call and what the call returned or
\* threw.
ReconcileSales(event, sortedSales, marketValue, costBase, taxableIncome) ==
    [heap   |-> sortedSales.heap,
     result |->
         TaxableIncomeResult(event, marketValue, costBase,
             ProcessSaleEvents(event, taxableIncome, costBase,
                 sortedSales.heap[sortedSales.ref], 1,
                 [status |-> "ok",
                  adjustedTaxableIncome |-> taxableIncome,
                  processedSaleEvents |-> <<>>,
                  totalSharesSold |-> Zero]))]

\* The call with the references event and saleEvents as arguments.
calculateRsuVestingTaxableIncomeOn(objects, event, saleEvents) ==
    IF objects[event].currency = "USD" /\ Falsy(objects[event].exchangeRate)
    THEN [heap   |-> objects,
          result |-> Throw("MissingExchangeRate",
                           "Exchange rate required for USD currency conversion")]
    ELSE ReconcileSales(objects[event],
             \* "if (saleEvents && saleEvents.length > 0)
             \*      const sortedSales = [...saleEvents].sort(...)"
             IF Len(objects[saleEvents]) > 0
             THEN ArraySort(SpreadCopy(objects, saleEvents))
             ELSE [heap |-> objects, ref |-> saleEvents],
             Mul(objects[event].sharePrice, objects[event].sharesVested),
             DefaultZero(objects[event].costBase),
             VestingIncomeAud(Sub(Mul(objects[event].sharePrice,
                                      objects[event].sharesVested),
                                  DefaultZero(objects[event].costBase)),
                              objects[event].currency, objects[event].exchangeRate))

\* What the call returns or throws for an event and an array that hold
\* these values.
calculateRsuVestingTaxableIncome(event, saleEvents) ==
    calculateRsuVestingTaxableIncomeOn(
        [r \in {<<"event", event>>, <<"saleEvents", saleEvents>>} |-> r[2]],
        <<"event", event>>, <<"saleEvents", saleEvents>>).result

(***************************************************************************)
(* calculateCapitalGains(saleEvent, costBase, acquisitionDate)             *)
(***************************************************************************)

\* The returned object.
CapitalGainsResult(saleEvent, costBase, grossProceeds, totalFees, saleProceedsAud, totalFeesAud, netProceeds, cgtDiscount) ==
    IF IsError(cgtDiscount) THEN cgtDiscount
    ELSE [status       |-> "ok",
          capitalGain  |-> Round2(cgtDiscount.discountedCapitalGain),
          isGain       |-> Gt(cgtDiscount.discountedCapitalGain, Zero),
          costBase     |-> costBase,
          saleProceeds |-> saleProceedsAud,
          netProceeds  |-> Round2(netProceeds),
          currency     |-> "AUD",
          appliedRule  |-> "standard-cgt",
          cgtDiscount  |-> cgtDiscount,
          calculation  |-> [grossProceeds |-> IF saleEvent.currency = "USD"
                                              THEN grossProceeds ELSE saleProceedsAud,
                            totalFees     |-> IF saleEvent.currency = "USD"
                                              THEN totalFees ELSE totalFeesAud,
                            costBase      |-> costBase,
                            sharesSold    |-> saleEvent.sharesSold,
                            salePricePerShare |-> saleEvent.salePricePerShare]]

\* "acquisitionDate || saleEvent.acquisitionDate", then the discount: from
\* calculateCgtDiscount when there is a date, the zero discount otherwise.
CgtDiscountFor_FromSaleDate(effectiveAcquisitionDate, saleDate, grossCapitalGain) ==
    calculateCgtDiscount(IF effectiveAcquisitionDate # NoDate
                         THEN effectiveAcquisitionDate ELSE saleDate,
                         saleDate, grossCapitalGain)

CgtDiscountFor(effectiveAcquisitionDate, saleDate, grossCapitalGain) ==
    IF effectiveAcquisitionDate # NoDate
    THEN calculateCgtDiscount(effectiveAcquisitionDate, saleDate, grossCapitalGain)
    ELSE [status                |-> "ok",
          eligible              |-> FALSE,
          holdingPeriodDays     |-> Zero,
          discountRate          |-> Zero,
          grossCapitalGain      |-> grossCapitalGain,
          discountedCapitalGain |-> grossCapitalGain]

\* From "const netProceeds = saleProceedsAud - totalFeesAud" on.
GainsFromNetProceeds(saleEvent, costBase, acquisitionDate, grossProceeds, totalFees, saleProceedsAud, totalFeesAud, netProceeds) ==
    CapitalGainsResult(saleEvent, costBase, grossProceeds, totalFees,
        saleProceedsAud, totalFeesAud, netProceeds,
        CgtDiscountFor(IF acquisitionDate # NoDate THEN acquisitionDate
                       ELSE saleEvent.acquisitionDate,
                       saleEvent.saleDate, Sub(netProceeds, costBase)))

\* From "Convert to AUD if needed" on.
GainsFromProceeds_FeesIgnored(saleEvent, costBase, acquisitionDate, grossProceeds, totalFees, saleProceedsAud, totalFeesAud) ==
    GainsFromNetProceeds(saleEvent, costBase, acquisitionDate, grossProceeds, totalFees,
        saleProceedsAud, totalFeesAud, saleProceedsAud)

GainsFromProceeds(saleEvent, costBase, acquisitionDate, grossProceeds, totalFees, saleProceedsAud, totalFeesAud) ==
    GainsFromNetProceeds(saleEvent, costBase, acquisitionDate, grossProceeds, totalFees,
        saleProceedsAud, totalFeesAud, Sub(saleProceedsAud, totalFeesAud))

\* From "Calculate gross proceeds in original currency" on.
GainsFromGross(saleEvent, costBase, acquisitionDate, grossProceeds, totalFees) ==
    GainsFromProceeds(saleEvent, costBase, acquisitionDate, grossProceeds, totalFees,
        AmountAud(grossProceeds, saleEvent.currency, saleEvent.exchangeRate),
        AmountAud(totalFees, saleEvent.currency, saleEvent.exchangeRate))

calculateCapitalGains(saleEvent, costBase, acquisitionDate) ==
    IF saleEvent.currency = "USD" /\ Falsy(saleEvent.exchangeRate)
    THEN Throw("MissingExchangeRate", "Exchange rate required for USD sales")
    ELSE GainsFromGross(saleEvent, costBase, acquisitionDate,
             Mul(saleEvent.sharesSold, saleEvent.salePricePerShare),
             Add(DefaultZero(saleEvent.brokerageCommission),
                 DefaultZero(saleEvent.supplementalFees)))

(***************************************************************************)
(* processVestingAndSale(vestingEvent, saleEvent)                          *)
(***************************************************************************)
Null == [status |-> "null"]

\* The object returned by the 30-day branch.
ThirtyDayResult(saleEvent, costBase, grossProceeds, totalFees, grossProceedsAud, totalFeesAud) ==
    [status               |-> "ok",
     taxableIncome        |-> Round2(Sub(Sub(grossProceedsAud, costBase), totalFeesAud)),
     capitalGain          |-> Zero,
     thirtyDayRuleApplied |-> TRUE,
     currency             |-> "AUD",
     vestingResult        |-> Null,
     saleResult |->
        [status       |-> "ok",
         capitalGain  |-> Zero,
         isGain       |-> FALSE,
         costBase     |-> costBase,
         saleProceeds |-> grossProceedsAud,
         netProceeds  |-> Sub(grossProceedsAud, totalFeesAud),
         currency     |-> "AUD",
         appliedRule  |-> "30-day",
         cgtDiscount  |-> [status                |-> "ok",
                           eligible              |-> FALSE,
                           holdingPeriodDays     |-> Zero,
                           discountRate          |-> Zero,
                           grossCapitalGain      |-> Zero,
                           discountedCapitalGain |-> Zero],
         calculation  |-> [grossProceeds |-> IF saleEvent.currency = "USD"
                                             THEN grossProceeds ELSE grossProceedsAud,
                           totalFees     |-> IF saleEvent.currency = "USD"
                                             THEN totalFees ELSE totalFeesAud,
                           costBase      |-> costBase,
                           sharesSold    |-> saleEvent.sharesSold,
                           salePricePerShare |-> saleEvent.salePricePerShare]]]

\* The 30-day branch after the exchange-rate validation.
ThirtyDayFromGross(vestingEvent, saleEvent, grossProceeds, totalFees) ==
    ThirtyDayResult(saleEvent, OrZero(vestingEvent.costBase), grossProceeds, totalFees,
        AmountAud(grossProceeds, saleEvent.currency, saleEvent.exchangeRate),
        AmountAud(totalFees, saleEvent.currency, saleEvent.exchangeRate))

ProcessThirtyDaySale(vestingEvent, saleEvent) ==
    IF saleEvent.currency = "USD" /\ Falsy(saleEvent.exchangeRate)
    THEN Throw("MissingExchangeRate",
               "Exchange rate required for USD sales in 30-day rule calculation")
    ELSE ThirtyDayFromGross(vestingEvent, saleEvent,
             Mul(saleEvent.sharesSold, saleEvent.salePricePerShare),
             Add(OrZero(saleEvent.brokerageCommission),
                 OrZero(saleEvent.supplementalFees)))

\* The object returned by the standard branch.
StandardResult(vestingResult, saleResult) ==
    IF IsError(saleResult) THEN saleResult
    ELSE [status               |-> "ok",
          taxableIncome        |-> vestingResult.taxableIncome,
          capitalGain          |-> saleResult.capitalGain,
          thirtyDayRuleApplied |-> FALSE,
          currency             |-> "AUD",
          vestingResult        |-> vestingResult,
          saleResult           |-> saleResult]

\* The standard branch, vestingResult being what the vesting calculation
\* returned or threw.
StandardFromVesting(vestingEvent, saleEvent, vestingResult) ==
    IF IsError(vestingResult) THEN vestingResult
    ELSE StandardResult(vestingResult,
             calculateCapitalGains(saleEvent,
                 Mul(Div(vestingResult.taxableIncome, vestingEvent.sharesVested),
                     saleEvent.sharesSold),
                 vestingEvent.vestDate))

\* calculateRsuVestingTaxableIncome(event) of the module that has
\* processVestingAndSale: it takes no sale events and its result has no
\* saleEvents and no remainingShares.
calculateRsuVestingTaxableIncomeOfEvent(event) ==
    IF event.currency = "USD" /\ Falsy(event.exchangeRate)
    THEN Throw("MissingExchangeRate", "Exchange rate required for USD currency conversion")
    ELSE [status        |-> "ok",
          taxableIncome |->
              VestingIncomeAud(Sub(Mul(event.sharePrice, event.sharesVested),
                                   DefaultZero(event.costBase)),
                               event.currency, event.exchangeRate),
          currency      |-> IF UsdWithRate(event.currency, event.exchangeRate)
                            THEN "AUD" ELSE event.currency,
          calculation   |-> [marketValue  |-> Mul(event.sharePrice, event.sharesVested),
                             costBase     |-> DefaultZero(event.costBase),
                             sharesVested |-> event.sharesVested,
                             sharePrice   |-> event.sharePrice]]

ProcessStandardSale(vestingEvent, saleEvent) ==
    StandardFromVesting(vestingEvent, saleEvent,
        calculateRsuVestingTaxableIncomeOfEvent(vestingEvent))

\* After the share-quantity validation, thirtyDayRule being what
\* checkThirtyDayRule returned or threw.
ProcessByRule_AlwaysStandard(vestingEvent, saleEvent, thirtyDayRule) ==
    IF IsError(thirtyDayRule) THEN thirtyDayRule
    ELSE ProcessStandardSale(vestingEvent, saleEvent)

ProcessByRule(vestingEvent, saleEvent, thirtyDayRule) ==
    IF IsError(thirtyDayRule) THEN thirtyDayRule
    ELSE IF thirtyDayRule.applies
         THEN ProcessThirtyDaySale(vestingEvent, saleEvent)
         ELSE ProcessStandardSale(vestingEvent, saleEvent)

processVestingAndSale(vestingEvent, saleEvent) ==
    IF Gt(saleEvent.sharesSold, vestingEvent.sharesVested)
    THEN Throw("OverAllocation", "Cannot sell more shares than were vested")
    ELSE ProcessByRule(vestingEvent, saleEvent,
             checkThirtyDayRule(vestingEvent.vestDate, saleEvent.saleDate))

(***************************************************************************)
(* CalculationsPage.calculationResults (app/calculations/page.tsx): the    *)
(* figures the calculations page derives from the imported data and the    *)
(* selected period.  A release or sale record carries the fields the       *)
(* computation reads.  A throw inside a try block drops the record; a      *)
(* throw outside one ends the computation.                                 *)
(***************************************************************************)
\* "date >= periodStart && date <= periodEnd"
InPeriod(date, period) ==
    /\ Le(DateGetTime(period.startDate), DateGetTime(date))
    /\ Le(DateGetTime(date), DateGetTime(period.endDate))

\* "release.currency === 'USD' || release.currency === 'AUD' ? ... : 'AUD'"
KnownCurrency(currency) == IF currency = "USD" \/ currency = "AUD" THEN currency ELSE "AUD"

\* "data.sales.filter(originatingReleaseRef === releaseReferenceNumber).map(...)":
\* the sale events built from the sale records related to the release.
RECURSIVE RelatedSales(_, _)
RelatedSales(sales, release) ==
    IF sales = <<>> THEN <<>>
    ELSE IF sales[1].originatingReleaseRef = release.releaseReferenceNumber
    THEN <<[saleDate            |-> sales[1].saleDate,
            sharesSold          |-> sales[1].sharesSold,
            salePricePerShare   |-> sales[1].salePricePerShare,
            currency            |-> KnownCurrency(sales[1].currency),
            exchangeRate        |-> Undefined,
            brokerageCommission |-> sales[1].brokerageCommission,
            supplementalFees    |-> sales[1].supplementalTransactionFee,
            acquisitionDate     |-> release.releaseDate]>>
         \o RelatedSales(Tail(sales), release)
    ELSE RelatedSales(Tail(sales), release)

\* One element of vestingResults, or the empty list when the calculation
\* threw ("catch { return null }" and the filter that follows).
VestingResultOf(release, calculation) ==
    IF IsError(calculation) THEN <<>>
    ELSE <<[rsuRelease |-> release, calculation |-> calculation]>>

\* "rsuReleasesInPeriod.map(...).filter(result !== null)"
RECURSIVE VestingResults(_, _, _)
VestingResults(releases, sales, period) ==
    IF releases = <<>> THEN <<>>
    ELSE IF ~InPeriod(releases[1].releaseDate, period)
    THEN VestingResults(Tail(releases), sales, period)
    ELSE VestingResultOf(releases[1],
             calculateRsuVestingTaxableIncome(
                 [vestDate     |-> releases[1].releaseDate,
                  sharePrice   |-> releases[1].fairMarketValuePerShare,
                  sharesVested |-> releases[1].sharesVested,
                  costBase     |-> Zero,
                  currency     |-> KnownCurrency(releases[1].currency),
                  exchangeRate |-> Undefined],
                 RelatedSales(sales, releases[1])))
         \o VestingResults(Tail(releases), sales, period)

\* "`${saleDate}-${sharesSold}`": the text of the date, a hyphen and the
\* text of the number.  The text of a number is stood for by the number
\* that reads so: 0 for both 0 and -0, which read "0", and the number itself
\* otherwise, no two other numbers reading the same.
SaleKey(saleDate, sharesSold) ==
    <<saleDate, "-", IF IsZero(sharesSold) THEN Zero ELSE sharesSold>>

\* "processedThirtyDayRuleSales": the keys of the sub-results the rule
\* applied to, of every vesting result.
ProcessedThirtyDayRuleSales(vestingResults) ==
    UNION { { SaleKey(vestingResults[i].calculation.saleEvents[k].saleEvent.saleDate,
                      vestingResults[i].calculation.saleEvents[k].saleEvent.sharesSold) :
                k \in { j \in 1..Len(vestingResults[i].calculation.saleEvents) :
                           vestingResults[i].calculation.saleEvents[j]
                               .thirtyDayRule.applies } } :
            i \in 1..Len(vestingResults) }

\* "(data.rsuReleases || []).find(...)": the index of the first release with
\* the reference, 0 when there is none.
RECURSIVE FindRelease(_, _, _)
FindRelease(releases, ref, i) ==
    IF i > Len(releases) THEN 0
    ELSE IF releases[i].releaseReferenceNumber = ref THEN i
    ELSE FindRelease(releases, ref, i + 1)

\* The filter callback of capitalGainsResults: its verdict,
\* "return !rule.applies || !processedThirtyDayRuleSales.has(saleKey)", or
\* the throw of checkThirtyDayRule, which no try block encloses.
FilterByRule(rule, processed, sale) ==
    IF IsError(rule) THEN rule
    ELSE [status |-> "ok",
          keep   |-> \/ ~rule.applies
                     \/ ~(SaleKey(sale.saleDate, sale.sharesSold) \in processed)]

CapitalGainsFilter(releases, processed, sale, found) ==
    IF found = 0 THEN [status |-> "ok", keep |-> TRUE]
    ELSE FilterByRule(checkThirtyDayRule(releases[found].releaseDate, sale.saleDate),
                      processed, sale)

\* "correspondingRelease?.releaseDate || sale.originalAcquisitionDate"
AcquisitionDateOf(releases, sale, found) ==
    IF found # 0 /\ releases[found].releaseDate # NoDate
    THEN releases[found].releaseDate ELSE sale.originalAcquisitionDate

\* One element of capitalGains.events, or the empty list when the
\* calculation threw.
CapitalGainsEventOf(releases, sale, found, calculation) ==
    IF IsError(calculation) THEN <<>>
    ELSE <<[sale |-> sale,
            calculation |-> calculation,
            thirtyDayRule |->
                [applies     |-> FALSE,
                 vestingDate |-> AcquisitionDateOf(releases, sale, found),
                 daysBetween |->
                     IF found # 0
                     THEN checkThirtyDayRule(releases[found].releaseDate,
                                             sale.saleDate).daysBetween
                     ELSE Undefined]]>>

CapitalGainsEvent(releases, sale, found) ==
    CapitalGainsEventOf(releases, sale, found,
        calculateCapitalGains(
            [saleDate            |-> sale.saleDate,
             sharesSold          |-> sale.sharesSold,
             salePricePerShare   |-> sale.salePricePerShare,
             currency            |-> "AUD",
             exchangeRate        |-> Undefined,
             brokerageCommission |-> sale.brokerageCommission,
             supplementalFees    |-> sale.supplementalTransactionFee,
             acquisitionDate     |-> AcquisitionDateOf(releases, sale, found)],
            \* "correspondingRelease ? fairMarketValuePerShare * sharesSold
            \*                       : sale.originalCostBasisTotal"
            IF found # 0
            THEN Mul(releases[found].fairMarketValuePerShare, sale.sharesSold)
            ELSE sale.originalCostBasisTotal,
            AcquisitionDateOf(releases, sale, found)))

\* "salesInPeriod.filter(...).map(...).filter(result !== null)" with the
\* filter's verdict on the first sale in hand: the events, or the throw.
RECURSIVE CapitalGainsResults(_, _, _, _)
CapitalGainsFrom(releases, processed, sales, verdict, rest) ==
    IF IsError(verdict) THEN verdict
    ELSE IF IsError(rest) THEN rest
    ELSE [status |-> "ok",
          events |-> (IF verdict.keep
                      THEN CapitalGainsEvent(releases, sales[1],
                               FindRelease(releases, sales[1].originatingReleaseRef, 1))
                      ELSE <<>>) \o rest.events]

CapitalGainsResults(releases, processed, sales, period) ==
    IF sales = <<>> THEN [status |-> "ok", events |-> <<>>]
    ELSE IF ~InPeriod(sales[1].saleDate, period)
    THEN CapitalGainsResults(releases, processed, Tail(sales), period)
    ELSE CapitalGainsFrom(releases, processed, sales,
             CapitalGainsFilter(releases, processed, sales[1],
                 FindRelease(releases, sales[1].originatingReleaseRef, 1)),
             CapitalGainsResults(releases, processed, Tail(sales), period))

\* "vestingResults.reduce((sum, result) => sum + taxableIncome, 0)"
RECURSIVE TotalVestingIncome(_)
TotalVestingIncome(vestingResults) ==
    IF vestingResults = <<>> THEN Zero
    ELSE Add(TotalVestingIncome(SubSeq(vestingResults, 1, Len(vestingResults) - 1)),
             vestingResults[Len(vestingResults)].calculation.taxableIncome)

\* "capitalGainsResults.reduce((sum, result) => sum + capitalGain, 0)"
RECURSIVE TotalCapitalGains(_)
TotalCapitalGains(events) ==
    IF events = <<>> THEN Zero
    ELSE Add(TotalCapitalGains(SubSeq(events, 1, Len(events) - 1)),
             events[Len(events)].calculation.capitalGain)

\* "capitalGain > 0 ? sum + capitalGain : sum"
RECURSIVE TotalGains(_)
TotalGains(events) ==
    IF events = <<>> THEN Zero
    ELSE IF Gt(events[Len(events)].calculation.capitalGain, Zero)
    THEN Add(TotalGains(SubSeq(events, 1, Len(events) - 1)),
             events[Len(events)].calculation.capitalGain)
    ELSE TotalGains(SubSeq(events, 1, Len(events) - 1))

\* "capitalGain < 0 ? sum + Math.abs(capitalGain) : sum"
RECURSIVE TotalLosses(_)
TotalLosses(events) ==
    IF events = <<>> THEN Zero
    ELSE IF Lt(events[Len(events)].calculation.capitalGain, Zero)
    THEN Add(TotalLosses(SubSeq(events, 1, Len(events) - 1)),
             Neg(events[Len(events)].calculation.capitalGain))
    ELSE TotalLosses(SubSeq(events, 1, Len(events) - 1))

\* "cgtDiscount.eligible ? sum + cgtDiscount.grossCapitalGain : sum"
RECURSIVE EligibleForDiscount(_)
EligibleForDiscount(events) ==
    IF events = <<>> THEN Zero
    ELSE IF events[Len(events)].calculation.cgtDiscount.eligible
    THEN Add(EligibleForDiscount(SubSeq(events, 1, Len(events) - 1)),
             events[Len(events)].calculation.cgtDiscount.grossCapitalGain)
    ELSE EligibleForDiscount(SubSeq(events, 1, Len(events) - 1))

\* The returned CalculationResult.
CalculationResult(period, vestingResults, gains) ==
    IF IsError(gains) THEN gains
    ELSE [status        |-> "ok",
          period        |-> period,
          vestingIncome |-> [total  |-> TotalVestingIncome(vestingResults),
                             events |-> vestingResults],
          capitalGains  |-> [total       |-> TotalCapitalGains(gains.events),
                             totalGains  |-> TotalGains(gains.events),
                             totalLosses |-> TotalLosses(gains.events),
                             events      |-> gains.events],
          summary       |-> [totalTaxableIncome  |-> TotalVestingIncome(vestingResults),
                             totalCapitalGains   |-> TotalCapitalGains(gains.events),
                             eligibleForDiscount |-> EligibleForDiscount(gains.events)]]

ResultsFromVesting(data, period, vestingResults) ==
    CalculationResult(period, vestingResults,
        CapitalGainsResults(data.rsuReleases,
            ProcessedThirtyDayRuleSales(vestingResults), data.sales, period))

\* "if (!data || !effectivePeriod) return null": null until the imported
\* data is loaded and a period is selected.
calculationResults(data, effectivePeriod) ==
    IF data = Null \/ effectivePeriod = Null THEN Null
    ELSE ResultsFromVesting(data, effectivePeriod,
             VestingResults(data.rsuReleases, data.sales, effectivePeriod))

(***************************************************************************)
(* lib/storage.ts: the imported data kept in the browser's localStorage    *)
(* under one key.  localStorage is the item stored under the key: NoItem   *)
(* when getItem gives null, the text of a JSON value, or a text that is    *)
(* not JSON.  A stored record carries its id and the field it is compared  *)
(* by.  In a JSON object a field is either of the type the code tests for  *)
(* (a string for lastUpdated, an array for the collections) or absent:     *)
(* absent stands for missing, null and values of any other type, which     *)
(* the code's typeof and Array.isArray tests treat alike.                  *)
(***************************************************************************)
NoItem == <<"none">>

\* "JSON.stringify(dataToSave)" and "JSON.parse(stored)": the text of a
\* value, and the outcome of reading a text: the value, or a SyntaxError
\* for a text that is not JSON.
JsonStringify(value) == <<"json", value>>

JsonParse(text) ==
    IF text[1] = "json"
    THEN [status |-> "ok", value |-> text[2]]
    ELSE [status |-> "threw"]

\* lastUpdated is the instant "new Date()" showed when the module was
\* loaded.
defaultImportedData ==
    [sales |-> <<>>, vesting |-> <<>>, rsuReleases |-> <<>>,
     lastUpdated |-> <<2025, 3, 1, 0>>]

\* "if (!stored) return defaultImportedData"; a text JSON.parse rejects
\* ends in the catch; JSON null is an object whose lastUpdated cannot be
\* read, which ends in the catch too; an object without a string
\* lastUpdated is an invalid structure.  All return the defaults.
\* migratedData: "Array.isArray(parsed.sales) ? parsed.sales : []", ...
loadImportedData(stored) ==
    LET MigratedData(parsed) ==
            [sales       |-> IF "sales" \in DOMAIN parsed THEN parsed.sales ELSE <<>>,
             vesting     |-> IF "vesting" \in DOMAIN parsed THEN parsed.vesting ELSE <<>>,
             rsuReleases |-> IF "rsuReleases" \in DOMAIN parsed
                             THEN parsed.rsuReleases ELSE <<>>,
             lastUpdated |-> parsed.lastUpdated]
    IN  IF stored = NoItem THEN defaultImportedData
        ELSE IF JsonParse(stored).status = "threw" THEN defaultImportedData
        ELSE IF "lastUpdated" \in DOMAIN JsonParse(stored).value
        THEN MigratedData(JsonParse(stored).value)
        ELSE defaultImportedData

\* The item after saveImportedData(data): setItem either stores the text
\* of "{ ...data, lastUpdated: new Date().toISOString() }" or throws
\* (storage full or unavailable), and the function returns whether it
\* stored.
saveImportedData(stored, data, now, stores) ==
    IF stores
    THEN JsonStringify([field \in DOMAIN data \cup {"lastUpdated"} |->
                            IF field = "lastUpdated" THEN now ELSE data[field]])
    ELSE stored

\* The item after clearImportedData(): removeItem either removes it or
\* throws, and the function returns whether it removed.
clearImportedData(stored, removes) == IF removes THEN NoItem ELSE stored

\* The records of newRecords whose key is not among existingKeys; newKeys
\* are the keys of newRecords, in order.
\* "newRecords.filter((record) => !existingKeys.has(key(record)))"
RECURSIVE FilterNew(_, _, _)
FilterNew(newRecords, newKeys, existingKeys) ==
    IF newRecords = <<>> THEN <<>>
    ELSE IF newKeys[1] \in existingKeys
    THEN FilterNew(Tail(newRecords), Tail(newKeys), existingKeys)
    ELSE <<newRecords[1]>> \o FilterNew(Tail(newRecords), Tail(newKeys), existingKeys)

\* updatedData of addSalesRecords, whose key is "record.withdrawalRef";
\* existingRefs is "new Set(currentData.sales.map(...))".
addSalesRecords(currentData, newRecords) ==
    LET SalesKeys(records) == [i \in 1..Len(records) |-> records[i].withdrawalRef]
    IN  [currentData EXCEPT !.sales =
            currentData.sales \o FilterNew(newRecords, SalesKeys(newRecords),
                { currentData.sales[i].withdrawalRef :
                    i \in 1..Len(currentData.sales) })]

\* updatedData of addVestingRecords, whose key is
\* "`${record.grantNumber}-${record.vestDate}`"; existingKeys is
\* "new Set(currentData.vesting.map(...))".
addVestingRecords(currentData, newRecords) ==
    LET VestingKeys(records) ==
            [i \in 1..Len(records) |->
                <<records[i].grantNumber, "-", records[i].vestDate>>]
    IN  [currentData EXCEPT !.vesting =
            currentData.vesting \o FilterNew(newRecords, VestingKeys(newRecords),
                { VestingKeys(currentData.vesting)[i] :
                    i \in 1..Len(currentData.vesting) })]

\* updatedData of addRsuReleaseRecords, whose key is
\* "record.releaseReferenceNumber"; existingRefs is
\* "new Set(currentData.rsuReleases.map(...))".
addRsuReleaseRecords(currentData, newRecords) ==
    LET ReleaseKeys(records) ==
            [i \in 1..Len(records) |-> records[i].releaseReferenceNumber]
    IN  [currentData EXCEPT !.rsuReleases =
            currentData.rsuReleases
                \o FilterNew(newRecords, ReleaseKeys(newRecords),
                             { currentData.rsuReleases[i].releaseReferenceNumber :
                                 i \in 1..Len(currentData.rsuReleases) })]

(***************************************************************************)
(* The calls that are made.  Dates lie around the vesting date 2025-03-01: *)
(* the day before, the same day, 19, 30, 30.5, 31, 365 and 366 days later. *)
(***************************************************************************)
MaxSales == 2

VestDay == <<2025, 3, 1, 0>>

VestNoon == <<2025, 3, 1, 12>>

DayBefore == <<2025, 2, 28, 0>>

Day19 == <<2025, 3, 20, 0>>

Day30 == <<2025, 3, 31, 0>>

Day30Noon == <<2025, 3, 31, 12>>

Day31 == <<2025, 4, 1, 0>>

Day365 == <<2026, 3, 1, 0>>

Day366 == <<2026, 3, 2, 0>>

SaleDates == {DayBefore, VestDay, VestNoon, Day19, Day30, Day30Noon, Day31, Day365, Day366}

\* 0.015 x 100 is 1.5 as a double, although the double 0.015 is below 3/200.
GrossGains == {Num(-100), Frac(-1, 8), Zero, Frac(3, 200), Frac(1, 8), Num(100)}

VestingEvents ==
    { [vestDate     |-> VestDay,
       sharePrice   |-> pcr[1],
       sharesVested |-> Num(n),
       costBase     |-> cb,
       currency     |-> pcr[2],
       exchangeRate |-> pcr[3]] :
        n \in {0, 2, 3, 4},
        pcr \in {<<Num(10), "AUD", Undefined>>,
                 <<Num(5), "USD", Num(8)>>,
                 <<Num(5), "USD", Undefined>>},
        cb \in {Undefined, Num(1)} }

Sale(date, shares, price, currency, rate, brokerage, supplemental) ==
    [saleDate            |-> date,
     sharesSold          |-> Num(shares),
     salePricePerShare   |-> price,
     currency            |-> currency,
     exchangeRate        |-> rate,
     brokerageCommission |-> brokerage,
     supplementalFees    |-> supplemental,
     acquisitionDate     |-> NoDate]

\* USD prices: 257/128 and 1281/128 divided by the rate 8 are 0.2509765625
\* and 1.2509765625, which round to 0.25 and 1.25.
UsdPrice == Frac(257, 128)

SaleEvents ==
    { Sale(VestDay,   1, Num(12),      "AUD", Undefined, Undefined, Undefined),
      Sale(Day30Noon, 2, Num(11),      "AUD", Undefined, Num(1),    Undefined),
      Sale(VestDay,   4, Num(12),      "AUD", Undefined, Num(1),    Num(1)),
      Sale(VestDay,   0, Num(12),      "AUD", Undefined, Undefined, Undefined),
      Sale(VestDay,   1, UsdPrice,     "USD", Num(8),    Num(2),    Undefined),
      Sale(Day30Noon, 4, UsdPrice,     "USD", Num(8),    Undefined, Num(2)),
      Sale(VestDay,   1, UsdPrice,     "USD", Undefined, Undefined, Undefined),
      Sale(Day31,     1, UsdPrice,     "USD", Undefined, Undefined, Undefined),
      Sale(Day31,     2, Num(12),      "AUD", Undefined, Num(1),    Undefined),
      Sale(Day31,     4, Num(8),       "AUD", Undefined, Undefined, Undefined),
      Sale(Day366,    1, Frac(1281, 128), "USD", Num(8), Undefined, Undefined),
      Sale(Day366,    4, Num(20),      "AUD", Undefined, Undefined, Undefined),
      Sale(DayBefore, 1, Num(12),      "AUD", Undefined, Undefined, Undefined) }

RECURSIVE SeqsUpTo(_, _)
SeqsUpTo(S, n) ==
    IF n = 0 THEN {<<>>}
    ELSE LET shorter == SeqsUpTo(S, n - 1)
         IN  shorter \cup {Append(q, x) : q \in shorter, x \in S}

\* 41 / 40 is the double next below 1.025, which x 100 is
\* 102.49999999999999; 1.005 x 100 is 100.49999999999999.
UsdAmounts ==
    {Num(-1), Frac(-1, 8), NegZero, Zero, Frac(1, 10), Frac(1, 8), Num(1),
     Frac(201, 200), Frac(5, 4), Num(3), Num(41), Num(100), NaN}

\* Instants the system clock can show while a call runs.
SystemDates == {VestNoon, Day31}

\* The imported data the calculations page works on.  Releases are dated
\* 2025-03-01; R2 is a USD release.  The sales W7 and W8 are of -0 and of 0
\* shares on one date, and their keys are the same text.
Release(ref, currency, price) ==
    [releaseReferenceNumber  |-> ref,
     releaseDate             |-> VestDay,
     fairMarketValuePerShare |-> price,
     sharesVested            |-> Num(4),
     currency                |-> currency]

ReleaseLists ==
    { <<>>,
      <<Release("R1", "AUD", Num(10))>>,
      <<Release("R2", "USD", Num(5))>>,
      <<Release("R1", "AUD", Num(10)), Release("R2", "USD", Num(5))>> }

SaleRecord(ref, release, date, shares, brokerage) ==
    [withdrawalRef              |-> ref,
     originatingReleaseRef      |-> release,
     saleDate                   |-> date,
     originalAcquisitionDate    |-> DayBefore,
     originalCostBasisTotal     |-> Num(5),
     sharesSold                 |-> Num(shares),
     salePricePerShare          |-> Num(12),
     brokerageCommission        |-> Num(brokerage),
     supplementalTransactionFee |-> Zero,
     currency                   |-> "AUD"]

MaxRecords == 2

Periods ==
    { [startDate |-> DayBefore, endDate |-> Day366],
      [startDate |-> Day19,     endDate |-> Day366],
      [startDate |-> DayBefore, endDate |-> VestNoon] }

\* The batches passed to the storage functions.  Two of the sales rows
\* carry the same withdrawal reference.
StoredSale(id, ref) == [id |-> id, withdrawalRef |-> ref]

NewRecords ==
    [sales       |-> {StoredSale("W1-0", "W1"), StoredSale("W1-1", "W1"),
                      StoredSale("W2-0", "W2")},
     vesting     |-> {[id |-> "G1-0", grantNumber |-> "G1", vestDate |-> VestDay]},
     rsuReleases |-> {[id |-> "R1-0", releaseReferenceNumber |-> "R1"]}]

MaxBatch == 2

\* calculateCapitalGains is also passed an AUD price with a fraction of a
\* cent and a sale that carries its own acquisitionDate; the cost base
\* 3071/256 is 12 - 1/256, just under proceeds of 12.
Calls ==
    {[op |-> "calculateRsuVestingTaxableIncome", event |-> v, saleEvents |-> l] :
        v \in VestingEvents, l \in SeqsUpTo(SaleEvents, MaxSales)}
    \cup
    {[op |-> "processVestingAndSale", vestingEvent |-> v, saleEvent |-> s] :
        v \in VestingEvents, s \in SaleEvents}
    \cup
    {[op |-> "calculateCapitalGains", saleEvent |-> s, costBase |-> c,
      acquisitionDate |-> a] :
        s \in SaleEvents \cup
              { Sale(Day366, 1, Frac(97, 8), "AUD", Undefined, Undefined, Undefined),
                [Sale(Day366, 2, Num(12), "AUD", Undefined, Num(1), Undefined)
                     EXCEPT !.acquisitionDate = VestDay] },
        c \in {Zero, Num(5), Frac(9, 8), Frac(3071, 256)},
        a \in {NoDate, VestDay}}
    \cup
    {[op |-> "calculateCgtDiscount", acquisitionDate |-> a, saleDate |-> d,
      grossCapitalGain |-> g] :
        a \in {VestDay, VestNoon}, d \in SaleDates, g \in GrossGains}
    \cup
    {[op |-> "checkThirtyDayRule", vestingDate |-> a, saleDate |-> d] :
        a \in {VestDay, VestNoon}, d \in SaleDates}
    \cup
    {[op |-> "convertUsdToAud", usdAmount |-> x, exchangeRate |-> r,
      conversionDate |-> d] :
        x \in UsdAmounts,
        r \in {Num(-8), NegZero, Zero, Frac(1, 2), Frac(67, 100), Num(1), Num(8),
              Num(40), NaN},
        d \in {VestDay, Day19}}
    \cup
    {[op |-> "convertShareEventValue", sharePrice |-> p, quantity |-> q,
      sourceCurrency |-> cs[1], targetCurrency |-> cs[2],
      exchangeRate |-> r, conversionDate |-> d] :
        p \in {Num(1), Num(10)}, q \in {Num(-2), Zero, Num(2)},
        cs \in {"USD", "AUD"} \X {"USD", "AUD"},
        r \in {Undefined, NegZero, Zero, Num(-8), Num(8), NaN}, d \in {NoDate, Day19}}
    \cup
    {[op |-> "calculationResults", data |-> [sales |-> l, rsuReleases |-> rl],
      effectivePeriod |-> pd] :
        l \in SeqsUpTo({ SaleRecord("W1", "R1", Day19,     1, 0),
                         SaleRecord("W2", "R1", Day31,     2, 1),
                         SaleRecord("W3", "R2", Day19,     2, 0),
                         SaleRecord("W4", "R9", VestDay,   1, 0),
                         SaleRecord("W5", "R1", DayBefore, 1, 0),
                         SaleRecord("W6", "R1", Day19,     4, 1),
                         [SaleRecord("W7", "R1", Day19,    0, 0)
                              EXCEPT !.sharesSold = NegZero],
                         SaleRecord("W8", "R2", Day19,     0, 0) }, MaxRecords),
        rl \in ReleaseLists, pd \in Periods}
    \cup
    {[op |-> "calculationResults", data |-> Null, effectivePeriod |-> pd] :
        pd \in Periods \cup {Null}}
    \cup
    {[op |-> "calculationResults", data |-> [sales |-> <<>>, rsuReleases |-> rl],
      effectivePeriod |-> Null] : rl \in ReleaseLists}

\* The arguments of a call are written as values here, and heap holds no
\* object.
Init ==
    /\ call \in Calls
    /\ ret = NotCalled
    /\ localStorage = NoItem
    /\ heap = <<>>

CallCalculateRsuVestingTaxableIncome ==
    /\ call.op = "calculateRsuVestingTaxableIncome"
    /\ ret = NotCalled
    /\ ret' = calculateRsuVestingTaxableIncome(call.event, call.saleEvents)
    /\ UNCHANGED <<call, localStorage, heap>>

CallProcessVestingAndSale ==
    /\ call.op = "processVestingAndSale"
    /\ ret = NotCalled
    /\ ret' = processVestingAndSale(call.vestingEvent, call.saleEvent)
    /\ UNCHANGED <<call, localStorage, heap>>

CallCalculateCapitalGains ==
    /\ call.op = "calculateCapitalGains"
    /\ ret = NotCalled
    /\ ret' = calculateCapitalGains(call.saleEvent, call.costBase, call.acquisitionDate)
    /\ UNCHANGED <<call, localStorage, heap>>

CallCalculateCgtDiscount ==
    /\ call.op = "calculateCgtDiscount"
    /\ ret = NotCalled
    /\ ret' = calculateCgtDiscount(call.acquisitionDate, call.saleDate,
                                   call.grossCapitalGain)
    /\ UNCHANGED <<call, localStorage, heap>>

CallCheckThirtyDayRule ==
    /\ call.op = "checkThirtyDayRule"
    /\ ret = NotCalled
    /\ ret' = checkThirtyDayRule(call.vestingDate, call.saleDate)
    /\ UNCHANGED <<call, localStorage, heap>>

CallConvertUsdToAud ==
    /\ call.op = "convertUsdToAud"
    /\ ret = NotCalled
    /\ ret' = convertUsdToAud(call.usdAmount, call.exchangeRate, call.conversionDate)
    /\ UNCHANGED <<call, localStorage, heap>>

\* The clock shows some instant while the call runs.
CallConvertShareEventValue ==
    /\ call.op = "convertShareEventValue"
    /\ ret = NotCalled
    /\ \E now \in SystemDates :
          ret' = convertShareEventValue(call.sharePrice, call.quantity,
                     call.sourceCurrency, call.targetCurrency,
                     call.exchangeRate, call.conversionDate, now)
    /\ UNCHANGED <<call, localStorage, heap>>

CallCalculationResults ==
    /\ call.op = "calculationResults"
    /\ ret = NotCalled
    /\ ret' = calculationResults(call.data, call.effectivePeriod)
    /\ UNCHANGED <<call, localStorage, heap>>

Next ==
    \/ CallCalculateRsuVestingTaxableIncome
    \/ CallProcessVestingAndSale
    \/ CallCalculateCapitalGains
    \/ CallCalculateCgtDiscount
    \/ CallCheckThirtyDayRule
    \/ CallConvertUsdToAud
    \/ CallConvertShareEventValue
    \/ CallCalculationResults

Spec == Init /\ [][Next]_vars

(***************************************************************************)
(* The storage module in use: calls of its save, add, replace and clear    *)
(* functions, one after the other.  The browser's localStorage starts      *)
(* empty, or holds what an earlier version of the module or another        *)
(* script left there: an object saved before rsuReleases existed, an       *)
(* object without lastUpdated, JSON null, or a text that is not JSON.      *)
(* call is the call made last and ret what it returned.                    *)
(***************************************************************************)
StorageInit ==
    /\ call = [op |-> "none"]
    /\ ret = NotCalled
    /\ heap = <<>>
    /\ localStorage \in
           {NoItem,
            <<"not json">>,
            JsonStringify(Null),
            JsonStringify([sales |-> <<StoredSale("W1-0", "W1")>>, vesting |-> <<>>,
                           lastUpdated |-> VestNoon]),
            JsonStringify([sales |-> <<StoredSale("W2-0", "W2")>>, vesting |-> <<>>,
                           rsuReleases |-> <<>>])}

\* A call that ends in saveImportedData(data).
StorageCall(op, data) ==
    \E now \in SystemDates, stores \in BOOLEAN :
        /\ call' = [op |-> op]
        /\ ret' = [status |-> "ok", value |-> stores]
        /\ localStorage' = saveImportedData(localStorage, data, now, stores)
        /\ UNCHANGED heap

CallAddSalesRecords ==
    \E newRecords \in SeqsUpTo(NewRecords.sales, MaxBatch) :
        StorageCall("addSalesRecords",
            addSalesRecords(loadImportedData(localStorage), newRecords))

CallAddVestingRecords ==
    \E newRecords \in SeqsUpTo(NewRecords.vesting, MaxBatch) :
        StorageCall("addVestingRecords",
            addVestingRecords(loadImportedData(localStorage), newRecords))

CallAddRsuReleaseRecords ==
    \E newRecords \in SeqsUpTo(NewRecords.rsuReleases, MaxBatch) :
        StorageCall("addRsuReleaseRecords",
            addRsuReleaseRecords(loadImportedData(localStorage), newRecords))

\* replaceSalesData, replaceVestingData, replaceRsuReleaseData:
\* "{ ...currentData, sales: records }" is saved.
CallReplaceSalesData ==
    \E records \in SeqsUpTo(NewRecords.sales, MaxBatch) :
        StorageCall("replaceSalesData",
            [loadImportedData(localStorage) EXCEPT !.sales = records])

CallReplaceVestingData ==
    \E records \in SeqsUpTo(NewRecords.vesting, MaxBatch) :
        StorageCall("replaceVestingData",
            [loadImportedData(localStorage) EXCEPT !.vesting = records])

CallReplaceRsuReleaseData ==
    \E records \in SeqsUpTo(NewRecords.rsuReleases, MaxBatch) :
        StorageCall("replaceRsuReleaseData",
            [loadImportedData(localStorage) EXCEPT !.rsuReleases = records])

\* saveImportedData called with data of the caller's: the three
\* collections and a lastUpdated text, or no rsuReleases as in the tests.
CallSaveImportedData ==
    \E sales \in SeqsUpTo(NewRecords.sales, MaxBatch),
       vesting \in SeqsUpTo(NewRecords.vesting, 1),
       rsuReleases \in SeqsUpTo(NewRecords.rsuReleases, 1),
       fields \in {{"sales", "vesting", "rsuReleases", "lastUpdated"},
                   {"sales", "vesting", "lastUpdated"}} :
        StorageCall("saveImportedData",
            [field \in fields |->
                [sales |-> sales, vesting |-> vesting, rsuReleases |-> rsuReleases,
                 lastUpdated |-> VestNoon][field]])

CallClearImportedData ==
    \E removes \in BOOLEAN :
        /\ call' = [op |-> "clearImportedData"]
        /\ ret' = [status |-> "ok", value |-> removes]
        /\ localStorage' = clearImportedData(localStorage, removes)
        /\ UNCHANGED heap

StorageNext ==
    \/ CallAddSalesRecords
    \/ CallAddVestingRecords
    \/ CallAddRsuReleaseRecords
    \/ CallReplaceSalesData
    \/ CallReplaceVestingData
    \/ CallReplaceRsuReleaseData
    \/ CallSaveImportedData
    \/ CallClearImportedData

StorageSpec == StorageInit /\ [][StorageNext]_vars

(***************************************************************************)
(* The engine in use by a caller that keeps its vesting events and its     *)
(* arrays of sale events as objects and passes them to one call after the  *)
(* other, in any order and any number of times (a call runs to completion  *)
(* before the next begins, so calls that interleave are calls in some      *)
(* order).  heap holds the caller's objects.  The reference of an object   *)
(* is written <<kind, v>>, v being what the caller built the object with.  *)
(* call holds the references passed and ret what the call returned.  The   *)
(* objects a call makes that nothing refers to once it is over (the sorted *)
(* copy) are not kept in heap.                                             *)
(***************************************************************************)
CallerObjects ==
    [r \in ({"event"} \X { v \in VestingEvents : v.sharesVested = Num(4) })
           \cup
           ({"saleEvents"} \X
                SeqsUpTo({ Sale(VestDay,   1, Num(12), "AUD", Undefined, Undefined, Undefined),
                           Sale(Day31,     2, Num(12), "AUD", Undefined, Num(1),    Undefined),
                           Sale(DayBefore, 1, Num(12), "AUD", Undefined, Undefined, Undefined) },
                         2)) |-> r[2]]

EngineInit ==
    /\ call = [op |-> "none"]
    /\ ret = NotCalled
    /\ localStorage = NoItem
    /\ heap = CallerObjects

CallCalculateRsuVestingTaxableIncomeOn ==
    \E event \in { r \in DOMAIN heap : r[1] = "event" },
       saleEvents \in { r \in DOMAIN heap : r[1] = "saleEvents" } :
        \E outcome \in {calculateRsuVestingTaxableIncomeOn(heap, event, saleEvents)} :
            /\ call' = [op |-> "calculateRsuVestingTaxableIncome",
                        event |-> event, saleEvents |-> saleEvents]
            /\ ret' = outcome.result
            /\ heap' = [r \in DOMAIN heap |-> outcome.heap[r]]
            /\ UNCHANGED localStorage

\* processVestingAndSale(vestingEvent, saleEvents[index - 1]): the function
\* reads the two objects.
CallProcessVestingAndSaleOn ==
    \E vestingEvent \in { r \in DOMAIN heap : r[1] = "event" },
       saleEvents \in { r \in DOMAIN heap : r[1] = "saleEvents" } :
        \E index \in 1..Len(heap[saleEvents]) :
            /\ call' = [op |-> "processVestingAndSale", vestingEvent |-> vestingEvent,
                        saleEvents |-> saleEvents, index |-> index]
            /\ ret' = processVestingAndSale(heap[vestingEvent], heap[saleEvents][index])
            /\ UNCHANGED <<localStorage, heap>>

EngineNext ==
    \/ CallCalculateRsuVestingTaxableIncomeOn
    \/ CallProcessVestingAndSaleOn

EngineSpec == EngineInit /\ [][EngineNext]_vars

(***************************************************************************)
(* Properties.                                                             *)
(***************************************************************************)
Returned(op) == call.op = op /\ ret # NotCalled

Reconciled == Returned("calculateRsuVestingTaxableIncome")

RECURSIVE SumSharesSold(_)
SumSharesSold(sales) ==
    IF sales = <<>> THEN Zero
    ELSE Add(sales[1].sharesSold, SumSharesSold(Tail(sales)))

RemoveAt(seq, i) == SubSeq(seq, 1, i - 1) \o SubSeq(seq, i + 1, Len(seq))

\* The sale lies within 30 whole days of the vesting date (and not before it).
WithinThirtyDays(event, sale) ==
    /\ DateTicks(sale.saleDate) >= DateTicks(event.vestDate)
    /\ DateTicks(sale.saleDate) - DateTicks(event.vestDate) < 31 * TicksPerDay

\* The sale lies more than 30 whole days after the vesting date.
AfterThirtyDays(event, sale) ==
    DateTicks(sale.saleDate) - DateTicks(event.vestDate) >= 31 * TicksPerDay

\* Vesting income of the whole tranche in the reporting currency.
BaselineIncome(event) ==
    LET original == Sub(Mul(event.sharePrice, event.sharesVested),
                        DefaultZero(event.costBase))
    IN  IF event.currency = "USD" THEN Div(original, event.exchangeRate) ELSE original

\* An amount of the sale in the reporting currency, rounded at conversion.
SaleAmountAud(sale, amount) ==
    IF sale.currency = "USD" THEN Round2(Div(amount, sale.exchangeRate)) ELSE amount

\* C1: a sale list whose cumulative sharesSold exceeds sharesVested is
\* rejected with OverAllocation, whatever its order, and with no other error.
C1_OverAllocationRejected ==
    (Reconciled /\ Gt(SumSharesSold(call.saleEvents), call.event.sharesVested))
        => (IsError(ret) /\ ret.kind = "OverAllocation")

\* C2: a successful reconciliation leaves remainingShares = sharesVested
\* minus the sum of sharesSold over the sale list (sharesVested with no sale).
C2_SharesConserved ==
    (Reconciled /\ IsOk(ret))
        => ret.remainingShares =
               Sub(call.event.sharesVested, SumSharesSold(call.saleEvents))

C2_Witness ==
    /\ Reconciled /\ IsOk(ret)
    /\ Len(ret.saleEvents) = 2
    /\ ret.saleEvents[1].thirtyDayRule.applies
    /\ ~ret.saleEvents[2].thirtyDayRule.applies
    /\ ret.remainingShares = Num(1)
    /\ call.event.sharesVested = Num(4)

\* C3: every sale within 30 days changes the running taxable income by
\* minus baseline x (sharesSold / sharesVested) plus (proceeds - costBase x
\* (sharesSold / sharesVested) - fees), the sale's amounts being in the
\* reporting currency; the taxable income is the baseline with the changes
\* of the sales made in the order of the sub-results, which list the sales
\* of the call.
ProcessedSales == [i \in 1..Len(ret.saleEvents) |-> ret.saleEvents[i].saleEvent]

IsPermutation(a, b) ==
    /\ Len(a) = Len(b)
    /\ \A x \in {a[i] : i \in 1..Len(a)} \cup {b[i] : i \in 1..Len(b)} :
           Cardinality({i \in 1..Len(a) : a[i] = x})
               = Cardinality({i \in 1..Len(b) : b[i] = x})

ThirtyDayChanged(running, event, sale) ==
    Add(Sub(running,
            Mul(BaselineIncome(event), Div(sale.sharesSold, event.sharesVested))),
        Sub(Sub(SaleAmountAud(sale, Mul(sale.sharesSold, sale.salePricePerShare)),
                Mul(DefaultZero(event.costBase),
                    Div(sale.sharesSold, event.sharesVested))),
            SaleAmountAud(sale, Add(OrZero(sale.brokerageCommission),
                                    OrZero(sale.supplementalFees)))))

RECURSIVE RunningIncome(_, _, _)
RunningIncome(event, sales, k) ==
    IF k = 0 THEN BaselineIncome(event)
    ELSE IF WithinThirtyDays(event, sales[k])
    THEN ThirtyDayChanged(RunningIncome(event, sales, k - 1), event, sales[k])
    ELSE RunningIncome(event, sales, k - 1)

C3_IncomeIsBaselinePlusDeltas ==
    (Reconciled /\ IsOk(ret))
        => /\ IsPermutation(ProcessedSales, call.saleEvents)
           /\ ret.taxableIncome =
                  RunningIncome(call.event, ProcessedSales, Len(ProcessedSales))

C3_Witness ==
    /\ Reconciled /\ IsOk(ret)
    /\ Len(call.saleEvents) = 2
    /\ \E i, j \in 1..2 :
          /\ WithinThirtyDays(call.event, call.saleEvents[i])
          /\ call.saleEvents[i].currency = "USD"
          /\ call.saleEvents[i].brokerageCommission = Num(2)
          /\ AfterThirtyDays(call.event, call.saleEvents[j])
    /\ call.event.costBase = Num(1)
    /\ IsFinite(ret.taxableIncome)
    /\ ret.taxableIncome # BaselineIncome(call.event)

\* C4: a sale more than 30 days after vesting, added to an accepted sale
\* list, changes remainingShares and adds one sub-result with no income;
\* taxableIncome, currency and the breakdown stay as they were.
C4_LateSaleLeavesIncome ==
    (Reconciled /\ IsOk(ret))
        => \A i \in 1..Len(call.saleEvents) :
              LET sale    == call.saleEvents[i]
                  without == calculateRsuVestingTaxableIncome(
                                 call.event, RemoveAt(call.saleEvents, i))
              IN  (AfterThirtyDays(call.event, sale) /\ IsOk(without))
                      => /\ ret.taxableIncome = without.taxableIncome
                         /\ ret.currency = without.currency
                         /\ ret.calculation = without.calculation
                         /\ ret.remainingShares =
                                Sub(without.remainingShares, sale.sharesSold)
                         /\ \E j \in 1..Len(ret.saleEvents) :
                               /\ ret.saleEvents[j].saleEvent = sale
                               /\ ret.saleEvents[j].adjustedTaxableIncome = Zero
                               /\ RemoveAt(ret.saleEvents, j) = without.saleEvents

C4_Witness ==
    /\ Reconciled /\ IsOk(ret)
    /\ Len(call.saleEvents) = 2
    /\ WithinThirtyDays(call.event, call.saleEvents[1])
    /\ AfterThirtyDays(call.event, call.saleEvents[2])
    /\ call.saleEvents[2].sharesSold = Num(2)
    /\ IsFinite(ret.taxableIncome)
    /\ ret.taxableIncome # BaselineIncome(call.event)

\* C5: for one sale accepted by both, processVestingAndSale returns the
\* taxableIncome that calculateRsuVestingTaxableIncome returns for the
\* one-element sale list.
C5_SingleSaleAgreesWithReconciler ==
    (Returned("processVestingAndSale") /\ IsOk(ret)
       /\ IsOk(calculateRsuVestingTaxableIncome(call.vestingEvent, <<call.saleEvent>>)))
        => ret.taxableIncome =
               calculateRsuVestingTaxableIncome(call.vestingEvent,
                                                <<call.saleEvent>>).taxableIncome

\* C6: checkThirtyDayRule returns daysBetween = the floored difference of
\* the dates in days, applies exactly when daysBetween <= 30 (days 0, 19 and
\* 30 apply, day 31 does not), and a "within 30 days" reason exactly when
\* applies.
C6_ThirtyDayBoundary ==
    (Returned("checkThirtyDayRule") /\ IsOk(ret))
        => /\ ret.daysBetween = Num(ret.daysBetween[1])
           /\ ret.daysBetween[1] * TicksPerDay
                  <= DateTicks(call.saleDate) - DateTicks(call.vestingDate)
           /\ DateTicks(call.saleDate) - DateTicks(call.vestingDate)
                  < (ret.daysBetween[1] + 1) * TicksPerDay
           /\ ret.applies <=> Le(ret.daysBetween, Num(30))
           /\ (ret.reason[1] = "Sale occurred within 30 days of vesting") <=> ret.applies
           /\ ret.reason[2] = ret.daysBetween
           /\ (call.vestingDate = VestDay /\ call.saleDate = VestDay)
                  => (ret.applies /\ ret.daysBetween = Num(0))
           /\ (call.vestingDate = VestDay /\ call.saleDate = Day19)
                  => (ret.applies /\ ret.daysBetween = Num(19))
           /\ (call.vestingDate = VestDay /\ call.saleDate = Day30)
                  => (ret.applies /\ ret.daysBetween = Num(30))
           /\ (call.vestingDate = VestDay /\ call.saleDate = Day31)
                  => (~ret.applies /\ ret.daysBetween = Num(31))

C6_Witness ==
    /\ Returned("checkThirtyDayRule") /\ IsOk(ret)
    /\ call.vestingDate = VestDay
    /\ call.saleDate = Day30Noon
    /\ ret.applies
    /\ ret.daysBetween = Num(30)

\* C7: calculateCgtDiscount returns eligible exactly when holdingPeriodDays
\* > 365 (365 days is not eligible, 366 days is), whatever the gross gain.
C7_DiscountEligibility ==
    (Returned("calculateCgtDiscount") /\ IsOk(ret))
        => /\ ret.eligible <=> Gt(ret.holdingPeriodDays, Num(365))
           /\ ret.holdingPeriodDays = Num(ret.holdingPeriodDays[1])
           /\ ret.holdingPeriodDays[1] * TicksPerDay
                  <= DateTicks(call.saleDate) - DateTicks(call.acquisitionDate)
           /\ DateTicks(call.saleDate) - DateTicks(call.acquisitionDate)
                  < (ret.holdingPeriodDays[1] + 1) * TicksPerDay
           /\ (call.acquisitionDate = VestDay /\ call.saleDate = Day365)
                  => (~ret.eligible /\ ret.holdingPeriodDays = Num(365))
           /\ (call.acquisitionDate = VestDay /\ call.saleDate = Day366)
                  => (ret.eligible /\ ret.holdingPeriodDays = Num(366))
           /\ \A g \in GrossGains :
                  calculateCgtDiscount(call.acquisitionDate, call.saleDate, g).eligible
                      = ret.eligible

C7_Witness ==
    /\ Returned("calculateCgtDiscount") /\ IsOk(ret)
    /\ call.acquisitionDate = VestDay
    /\ call.saleDate = Day366
    /\ Lt(call.grossCapitalGain, Zero)
    /\ ret.eligible

\* The product of two finite doubles and the order of two such products,
\* without rounding.
ExactProduct(x, y) ==
    [s |-> SignOf(x) * SignOf(y),
     e |-> Unpack(x).e + Unpack(y).e,
     m |-> BigMul(Unpack(x).m, Unpack(y).m)]

ExactLess(u, v) ==
    IF u.m = <<>> THEN v.m # <<>> /\ v.s > 0
    ELSE IF v.m = <<>> THEN u.s < 0
    ELSE CmpDoubles(u, v) < 0

\* r is a whole number n of cents: the double nearest to n / 100.
IsWholeCents(r) == IsFinite(r) /\ r = Div(MathRound(Mul(r, Num(100))), Num(100))

\* r is x / y rounded to 2 decimals, half cents towards +Infinity, for a
\* finite x and a positive y: r is a whole number n of cents with
\* (n - 1/2) y <= 100 x < (n + 1/2) y.
IsRoundedRatio(x, y, r) ==
    /\ IsWholeCents(r)
    /\ ~ExactLess(ExactProduct(x, Num(200)),
                  ExactProduct(y, Sub(Mul(MathRound(Mul(r, Num(100))), Num(2)), Num(1))))
    /\ ExactLess(ExactProduct(x, Num(200)),
                 ExactProduct(y, Add(Mul(MathRound(Mul(r, Num(100))), Num(2)), Num(1))))

\* r is x rounded to 2 decimals as Math.round(x * 100) / 100 rounds it: the
\* whole number n of cents with n - 1/2 <= p < n + 1/2 for the double p
\* that x * 100 gives.
IsRoundedToCents(x, r) == IsFinite(x) /\ IsRoundedRatio(Mul(x, Num(100)), Num(100), r)

DiscountRateAsClaimed ==
    /\ ret.discountRate =
           (IF ret.eligible /\ Gt(call.grossCapitalGain, Zero) THEN Frac(1, 2) ELSE Zero)
    /\ ret.grossCapitalGain = call.grossCapitalGain
    /\ IsRoundedToCents(Mul(call.grossCapitalGain, Sub(Num(1), ret.discountRate)),
                        ret.discountedCapitalGain)

\* C8 as stated: the discount rate is 0.5 exactly when eligible with a
\* positive gain and 0 otherwise, the discounted gain is the gross gain x
\* (1 - rate) rounded to 2 decimals, and for a loss the rate is 0 and the
\* discounted gain equals the gross gain unchanged.
C8_LossReturnedUnchanged ==
    (Returned("calculateCgtDiscount") /\ IsOk(ret))
        => /\ DiscountRateAsClaimed
           /\ Lt(call.grossCapitalGain, Zero)
                  => /\ ret.discountRate = Zero
                     /\ ret.discountedCapitalGain = call.grossCapitalGain

\* C8 amended: as above, but for a loss the discounted gain is the gross
\* gain rounded to 2 decimals; it is the gross gain itself when that is a
\* whole number of cents.
C8_LossReturnedRounded ==
    (Returned("calculateCgtDiscount") /\ IsOk(ret))
        => /\ DiscountRateAsClaimed
           /\ Lt(call.grossCapitalGain, Zero)
                  => /\ ret.discountRate = Zero
                     /\ IsRoundedToCents(call.grossCapitalGain, ret.discountedCapitalGain)
                     /\ IsWholeCents(call.grossCapitalGain)
                            => ret.discountedCapitalGain = call.grossCapitalGain

C8_Witness ==
    /\ Returned("calculateCgtDiscount") /\ IsOk(ret)
    /\ call.grossCapitalGain = Frac(-1, 8)
    /\ ret.eligible
    /\ ret.discountRate = Zero
    /\ ret.discountedCapitalGain = Frac(-12, 100)

\* The call passes a USD vesting or sale event that has no exchange rate.
UsdWithoutRate(e) == e.currency = "USD" /\ e.exchangeRate = Undefined

PassesUsdWithoutRate ==
    CASE call.op = "calculateRsuVestingTaxableIncome" ->
             \/ UsdWithoutRate(call.event)
             \/ \E i \in 1..Len(call.saleEvents) : UsdWithoutRate(call.saleEvents[i])
      [] call.op = "processVestingAndSale" ->
             UsdWithoutRate(call.vestingEvent) \/ UsdWithoutRate(call.saleEvent)
      [] call.op = "calculateCapitalGains" -> UsdWithoutRate(call.saleEvent)
      [] OTHER -> FALSE

\* C9: every computation that receives a USD vesting or sale event without
\* an exchange rate fails with a missing-exchange-rate error.
C9_MissingRateAlwaysFails ==
    (ret # NotCalled /\ PassesUsdWithoutRate)
        => (IsError(ret) /\ ret.kind = "MissingExchangeRate")

\* a is an earlier instant than b, read off the date strings field by field.
RECURSIVE DatePrecedesFrom(_, _, _)
DatePrecedesFrom(a, b, i) ==
    /\ i <= 4
    /\ \/ a[i] < b[i]
       \/ a[i] = b[i] /\ DatePrecedesFrom(a, b, i + 1)

DatePrecedes(a, b) == DatePrecedesFrom(a, b, 1)

\* C10: checkThirtyDayRule and calculateCgtDiscount throw InvalidDateOrder
\* when the sale date precedes the vesting / acquisition date, and accept
\* equal dates.
C10_SaleBeforeReferenceRejected ==
    /\ Returned("checkThirtyDayRule")
           => /\ DatePrecedes(call.saleDate, call.vestingDate)
                     => (IsError(ret) /\ ret.kind = "InvalidDateOrder")
              /\ call.saleDate = call.vestingDate => IsOk(ret)
    /\ Returned("calculateCgtDiscount")
           => /\ DatePrecedes(call.saleDate, call.acquisitionDate)
                     => (IsError(ret) /\ ret.kind = "InvalidDateOrder")
              /\ call.saleDate = call.acquisitionDate => IsOk(ret)

C10_Witness ==
    /\ Returned("checkThirtyDayRule")
    /\ call.vestingDate = VestNoon
    /\ call.saleDate = VestDay
    /\ IsError(ret)
    /\ ret.kind = "InvalidDateOrder"

(***************************************************************************)
(* Currency conversion.                                                    *)
(***************************************************************************)
\* Signs and order of finite numbers.
IsNegative(x) == IsFinite(x) /\ ~IsZero(x) /\ SignOf(x) < 0

IsPositive(x) == IsFinite(x) /\ ~IsZero(x) /\ SignOf(x) > 0

IsNonNegative(x) == IsFinite(x) /\ (IsZero(x) \/ SignOf(x) > 0)

AtMost(x, y) ==
    IsFinite(x) /\ IsFinite(y) /\ ~ExactLess(ExactProduct(y, Num(1)), ExactProduct(x, Num(1)))

Converted == Returned("convertUsdToAud")

ConvertsValidInput ==
    Converted /\ IsNonNegative(call.usdAmount) /\ IsPositive(call.exchangeRate)

\* C11: convertUsdToAud throws InvalidInput for every negative amount and
\* for every rate <= 0, and succeeds for every amount >= 0 with a rate > 0;
\* the amount 0 converts to 0.
C11_InvalidAmountOrRateRejected ==
    Converted
        => /\ (IsNegative(call.usdAmount) \/ IsNegative(call.exchangeRate)
                  \/ IsZero(call.exchangeRate))
                  => (IsError(ret) /\ ret.kind = "InvalidInput")
           /\ (IsNonNegative(call.usdAmount) /\ IsPositive(call.exchangeRate))
                  => IsOk(ret)
           /\ (IsZero(call.usdAmount) /\ IsPositive(call.exchangeRate))
                  => (IsOk(ret) /\ IsZero(ret.convertedAmount))

C11_Witness ==
    /\ Converted
    /\ call.usdAmount = Zero
    /\ call.exchangeRate = Zero
    /\ IsError(ret)
    /\ ret.kind = "InvalidInput"

\* C12: for a non-negative amount and a positive rate convertUsdToAud
\* returns convertedAmount = amount / rate rounded to 2 decimals, half cents
\* upwards, and echoes the amount, the rate and the date.
C12_ConvertedAmountRounded ==
    ConvertsValidInput
        => /\ IsOk(ret)
           /\ IsRoundedRatio(call.usdAmount, call.exchangeRate, ret.convertedAmount)
           /\ ret.originalAmount = call.usdAmount
           /\ ret.exchangeRate = call.exchangeRate
           /\ ret.conversionDate = call.conversionDate

\* C13: for a fixed positive rate the converted amount never decreases when
\* the amount grows: every amount a1 with 0 <= a1 <= amount converts to at
\* most what amount converts to.
C13_MonotonicInAmount ==
    (ConvertsValidInput /\ IsOk(ret))
        => \A a1 \in UsdAmounts :
              (IsNonNegative(a1) /\ AtMost(a1, call.usdAmount))
                  => Le(convertUsdToAud(a1, call.exchangeRate,
                                        call.conversionDate).convertedAmount,
                        ret.convertedAmount)

C13_Witness ==
    /\ ConvertsValidInput /\ IsOk(ret)
    /\ call.usdAmount = Frac(5, 4)
    /\ call.exchangeRate = Num(8)
    /\ ret.convertedAmount = Frac(16, 100)
    /\ convertUsdToAud(Num(1), call.exchangeRate, call.conversionDate).convertedAmount
           = Frac(13, 100)

ShareEventConverted == Returned("convertShareEventValue")

CurrenciesDiffer == call.sourceCurrency # call.targetCurrency

\* C14: a call's result depends on its arguments only.  For
\* convertShareEventValue: whatever the system clock shows during the call,
\* the result is the one returned.
C14_ResultFromArgumentsOnly ==
    ShareEventConverted
        => \A now \in SystemDates :
              ret = convertShareEventValue(call.sharePrice, call.quantity,
                        call.sourceCurrency, call.targetCurrency,
                        call.exchangeRate, call.conversionDate, now)

\* C15: with differing currencies convertShareEventValue throws
\* MissingExchangeRate when the rate is absent and MissingConversionDate
\* when the rate is present and the date is absent.
C15_RateThenDateRequired ==
    (ShareEventConverted /\ CurrenciesDiffer)
        => /\ call.exchangeRate = Undefined
                  => (IsError(ret) /\ ret.kind = "MissingExchangeRate")
           /\ (call.exchangeRate # Undefined /\ call.conversionDate = NoDate)
                  => (IsError(ret) /\ ret.kind = "MissingConversionDate")

OtherPair ==
    CurrenciesDiffer /\ ~(call.sourceCurrency = "USD" /\ call.targetCurrency = "AUD")

\* C16 as stated: for a pair of differing currencies other than USD to AUD
\* convertShareEventValue throws UnsupportedConversion, whether or not a
\* rate and a date are supplied.
C16_OtherPairAlwaysUnsupported ==
    (ShareEventConverted /\ OtherPair)
        => (IsError(ret) /\ ret.kind = "UnsupportedConversion")

\* C16 amended: for such a pair convertShareEventValue never returns a
\* result; it throws UnsupportedConversion when a rate other than 0 and NaN
\* and a date are supplied, MissingExchangeRate when the rate is absent, 0
\* or NaN, and MissingConversionDate when only the date is absent.
C16_OtherPairUnsupportedWhenRateAndDateGiven ==
    (ShareEventConverted /\ OtherPair)
        => /\ IsError(ret)
           /\ ret.kind =
                 (IF call.exchangeRate \in {Undefined, Zero, NegZero, NaN}
                  THEN "MissingExchangeRate"
                  ELSE IF call.conversionDate = NoDate
                  THEN "MissingConversionDate"
                  ELSE "UnsupportedConversion")

C16_Witness ==
    /\ ShareEventConverted
    /\ call.sourceCurrency = "AUD" /\ call.targetCurrency = "USD"
    /\ call.exchangeRate = Num(8)
    /\ call.conversionDate = Day19
    /\ IsError(ret)
    /\ ret.kind = "UnsupportedConversion"

(***************************************************************************)
(* Capital gains.                                                          *)
(***************************************************************************)
GainsComputed == Returned("calculateCapitalGains")

\* The acquisition date of the call: the argument, else the sale's own.
AcquisitionDateOfCall ==
    IF call.acquisitionDate # NoDate THEN call.acquisitionDate
    ELSE call.saleEvent.acquisitionDate

\* Proceeds and fees of the sale in the reporting currency.
ProceedsAud(sale) == SaleAmountAud(sale, Mul(sale.sharesSold, sale.salePricePerShare))

FeesAud(sale) ==
    SaleAmountAud(sale, Add(DefaultZero(sale.brokerageCommission),
                            DefaultZero(sale.supplementalFees)))

\* The gross gain: proceeds - fees - costBase.
GrossGainOfCall ==
    Sub(Sub(ProceedsAud(call.saleEvent), FeesAud(call.saleEvent)), call.costBase)

\* The result's discount is the CGT discount of the gross gain (none
\* without an acquisition date) and capitalGain is the discounted gain
\* rounded to 2 decimals.
GainIsDiscountedGrossGain ==
    /\ ret.saleProceeds = ProceedsAud(call.saleEvent)
    /\ ret.cgtDiscount.grossCapitalGain = GrossGainOfCall
    /\ ret.cgtDiscount =
           (IF AcquisitionDateOfCall # NoDate
            THEN calculateCgtDiscount(AcquisitionDateOfCall, call.saleEvent.saleDate,
                                      GrossGainOfCall)
            ELSE [ret.cgtDiscount EXCEPT !.discountedCapitalGain = GrossGainOfCall])
    /\ IsRoundedToCents(ret.cgtDiscount.discountedCapitalGain, ret.capitalGain)

\* C17 as stated: calculateCapitalGains returns saleProceeds converted and
\* rounded, netProceeds = saleProceeds - fees, a gross gain = netProceeds -
\* costBase and capitalGain = the discounted gross gain rounded to 2
\* decimals.
C17_NetProceedsIsProceedsLessFees ==
    (GainsComputed /\ IsOk(ret))
        => /\ GainIsDiscountedGrossGain
           /\ ret.netProceeds = Sub(ProceedsAud(call.saleEvent), FeesAud(call.saleEvent))
           /\ ret.cgtDiscount.grossCapitalGain = Sub(ret.netProceeds, call.costBase)

\* C17 amended: as above, but the returned netProceeds is saleProceeds -
\* fees rounded to 2 decimals, and the gross gain is saleProceeds - fees -
\* costBase taken before that rounding.
C17_NetProceedsRounded ==
    (GainsComputed /\ IsOk(ret))
        => /\ GainIsDiscountedGrossGain
           /\ IsRoundedToCents(Sub(ProceedsAud(call.saleEvent), FeesAud(call.saleEvent)),
                               ret.netProceeds)

\* 12.125 held 366 days: netProceeds 12.13, gain 6.0625 rounded to 6.06.
C17_Witness ==
    /\ GainsComputed /\ IsOk(ret)
    /\ call.saleEvent.salePricePerShare = Frac(97, 8)
    /\ call.acquisitionDate = VestDay
    /\ call.costBase = Zero
    /\ ret.cgtDiscount.discountRate = Frac(1, 2)
    /\ ret.netProceeds = Frac(1213, 100)
    /\ ret.capitalGain = Frac(606, 100)

\* C18: isGain is true exactly when the returned capitalGain is > 0.
C18_IsGainMatchesCapitalGain ==
    (GainsComputed /\ IsOk(ret))
        => (ret.isGain <=> IsPositive(ret.capitalGain))

NoAcquisitionDate == GainsComputed /\ AcquisitionDateOfCall = NoDate

ZeroDiscountOfCall ==
    /\ ret.appliedRule = "standard-cgt"
    /\ ret.cgtDiscount.eligible = FALSE
    /\ ret.cgtDiscount.holdingPeriodDays = Num(0)
    /\ ret.cgtDiscount.discountRate = Zero
    /\ ret.cgtDiscount.grossCapitalGain = GrossGainOfCall
    /\ ret.cgtDiscount.discountedCapitalGain = GrossGainOfCall

\* C19 as stated: without an acquisition date calculateCapitalGains returns
\* appliedRule 'standard-cgt', a zero discount (not eligible, 0 days, rate
\* 0, discounted gain = gross gain) and capitalGain = the gross gain.
C19_NoDateGainIsGrossGain ==
    (NoAcquisitionDate /\ IsOk(ret))
        => /\ ZeroDiscountOfCall
           /\ ret.capitalGain = GrossGainOfCall

\* C19 amended: as above, but capitalGain is the gross gain rounded to 2
\* decimals.
C19_NoDateGainIsRoundedGrossGain ==
    (NoAcquisitionDate /\ IsOk(ret))
        => /\ ZeroDiscountOfCall
           /\ IsRoundedToCents(GrossGainOfCall, ret.capitalGain)

\* 12 - 1.125 = 10.875, returned as 10.88.
C19_Witness ==
    /\ NoAcquisitionDate /\ IsOk(ret)
    /\ call.costBase = Frac(9, 8)
    /\ ret.cgtDiscount.discountedCapitalGain = Frac(87, 8)
    /\ ret.capitalGain = Frac(1088, 100)

\* The standard branch of processVestingAndSale as claimed: the whole
\* vesting income, and the gain on the proportional cost base with the
\* vesting date as acquisition date.
StandardAsClaimed(vestingEvent, saleEvent) ==
    /\ ~ret.thirtyDayRuleApplied
    /\ ret.taxableIncome = BaselineIncome(vestingEvent)
    /\ ret.saleResult.appliedRule = "standard-cgt"
    /\ ret.saleResult =
           calculateCapitalGains(saleEvent,
               Mul(Div(BaselineIncome(vestingEvent), vestingEvent.sharesVested),
                   saleEvent.sharesSold),
               vestingEvent.vestDate)
    /\ ret.capitalGain = ret.saleResult.capitalGain

ThirtyDayAsClaimed ==
    /\ ret.thirtyDayRuleApplied
    /\ ret.capitalGain = Zero
    /\ ret.saleResult.appliedRule = "30-day"
    /\ ret.vestingResult = Null

\* C20: processVestingAndSale returns, for a sale within 30 days, no capital
\* gain, appliedRule '30-day' and no vesting result; for a later sale the
\* whole vesting income, appliedRule 'standard-cgt' and the capital gain on
\* the cost base vesting income / sharesVested x sharesSold, acquired on
\* the vesting date.
C20_SingleSaleBranches ==
    (Returned("processVestingAndSale") /\ IsOk(ret))
        => IF WithinThirtyDays(call.vestingEvent, call.saleEvent)
           THEN ThirtyDayAsClaimed
           ELSE StandardAsClaimed(call.vestingEvent, call.saleEvent)

\* USD vesting of 4 shares worth 2.5 AUD, 2 sold for 24 - 1 on day 31.
C20_Witness ==
    /\ Returned("processVestingAndSale") /\ IsOk(ret)
    /\ ~ret.thirtyDayRuleApplied
    /\ call.vestingEvent.currency = "USD"
    /\ call.vestingEvent.sharesVested = Num(4)
    /\ call.vestingEvent.costBase = Undefined
    /\ call.saleEvent.sharesSold = Num(2)
    /\ ret.taxableIncome = Frac(5, 2)
    /\ ret.saleResult.costBase = Frac(5, 4)
    /\ ret.capitalGain = Frac(87, 4)

(***************************************************************************)
(* The reconciler's output.                                                *)
(***************************************************************************)
\* C21: the taxableIncome that calculateRsuVestingTaxableIncome returns is
\* rounded to 2 decimals: it is a whole number of cents.
C21_TaxableIncomeInCents ==
    (Reconciled /\ IsOk(ret)) => IsWholeCents(ret.taxableIncome)

RECURSIVE SumSubResults(_)
SumSubResults(subResults) ==
    IF subResults = <<>> THEN Zero
    ELSE Add(subResults[1].adjustedTaxableIncome, SumSubResults(Tail(subResults)))

\* C22: a successful reconciliation records one sub-result per sale, with
\* that sale's ThirtyDayRuleResult and the income delta the sale caused (0
\* when the rule does not apply), and taxableIncome = the baseline vesting
\* income + the sum of the sub-results' deltas.
C22_IncomeIsBaselinePlusSubResults ==
    (Reconciled /\ IsOk(ret))
        => /\ Len(ret.saleEvents) = Len(call.saleEvents)
           /\ \A i \in 1..Len(ret.saleEvents) :
                 /\ ret.saleEvents[i].thirtyDayRule =
                        checkThirtyDayRule(call.event.vestDate,
                                           ret.saleEvents[i].saleEvent.saleDate)
                 /\ ~ret.saleEvents[i].thirtyDayRule.applies
                        => ret.saleEvents[i].adjustedTaxableIncome = Zero
           /\ ret.taxableIncome =
                  Add(BaselineIncome(call.event), SumSubResults(ret.saleEvents))

\* The results that carry a day count, wherever they are embedded.
DayCountsOfResult ==
    CASE call.op = "checkThirtyDayRule" -> {ret.daysBetween}
      [] call.op = "calculateCgtDiscount" -> {ret.holdingPeriodDays}
      [] call.op = "calculateCapitalGains" -> {ret.cgtDiscount.holdingPeriodDays}
      [] call.op = "calculateRsuVestingTaxableIncome" ->
             {ret.saleEvents[i].thirtyDayRule.daysBetween : i \in 1..Len(ret.saleEvents)}
      [] call.op = "processVestingAndSale" ->
             {ret.saleResult.cgtDiscount.holdingPeriodDays}
      [] OTHER -> {}

\* C23: every ThirtyDayRuleResult has daysBetween >= 0 and every CGT
\* discount result has holdingPeriodDays >= 0, returned directly or inside
\* another result.
C23_DayCountsNonNegative ==
    (ret # NotCalled /\ IsOk(ret)) => \A days \in DayCountsOfResult : Le(Zero, days)

\* A sale 12 hours after the acquisition: 0 whole days.
C23_Witness ==
    /\ Returned("calculateCgtDiscount") /\ IsOk(ret)
    /\ call.acquisitionDate = VestDay
    /\ call.saleDate = VestNoon
    /\ ret.holdingPeriodDays = Num(0)

\* C24: the reconciler's result is in the reporting currency: currency is
\* AUD and the breakdown's marketValue and costBase are AUD amounts, so
\* that with no sales taxableIncome = marketValue - costBase.
C24_BreakdownInReportingCurrency ==
    (Reconciled /\ IsOk(ret))
        => /\ ret.currency = "AUD"
           /\ call.saleEvents = <<>>
                  => ret.taxableIncome =
                         Sub(ret.calculation.marketValue, ret.calculation.costBase)

\* C25: after any calls in any order every object of the caller holds
\* what the caller built it with (an array its elements in their order),
\* and the call made last returned or threw what it does on objects
\* built so and passed to no other call.
C25_InputsUnchanged ==
    /\ DOMAIN heap = DOMAIN CallerObjects
    /\ \A r \in DOMAIN heap : heap[r] = r[2]
    /\ Returned("calculateRsuVestingTaxableIncome")
           => ret = calculateRsuVestingTaxableIncome(call.event[2], call.saleEvents[2])
    /\ Returned("processVestingAndSale")
           => ret = processVestingAndSale(call.vestingEvent[2],
                                          call.saleEvents[2][call.index])

\* An array built out of date order was passed, and its sales were
\* processed in date order.
C25_Witness ==
    /\ Reconciled /\ IsOk(ret)
    /\ Len(heap[call.saleEvents]) = 2
    /\ heap[call.saleEvents][1].saleDate = Day31
    /\ heap[call.saleEvents][2].saleDate = VestDay
    /\ ret.saleEvents[1].saleEvent = heap[call.saleEvents][2]
    /\ ret.saleEvents[2].saleEvent = heap[call.saleEvents][1]

Swap(seq, i, j) == [seq EXCEPT ![i] = seq[j], ![j] = seq[i]]

SameOutcome(a, b) ==
    /\ IsOk(a) <=> IsOk(b)
    /\ IsOk(a) => /\ a.taxableIncome = b.taxableIncome
                  /\ a.remainingShares = b.remainingShares

\* C26: the sub-results are in ascending sale-date order, and the sale list
\* with any two sales exchanged gives the same taxableIncome and
\* remainingShares, or fails as well.
C26_OrderIndependent ==
    Reconciled
        => /\ IsOk(ret)
                  => \A i \in 1..(Len(ret.saleEvents) - 1) :
                         DateTicks(ret.saleEvents[i].saleEvent.saleDate)
                             <= DateTicks(ret.saleEvents[i + 1].saleEvent.saleDate)
           /\ \A i, j \in 1..Len(call.saleEvents) :
                  SameOutcome(ret,
                      calculateRsuVestingTaxableIncome(call.event,
                          Swap(call.saleEvents, i, j)))

RECURSIVE SumApplyingShares(_, _)
SumApplyingShares(event, sales) ==
    IF sales = <<>> THEN Zero
    ELSE Add(IF WithinThirtyDays(event, sales[1]) THEN sales[1].sharesSold ELSE Zero,
             SumApplyingShares(event, Tail(sales)))

\* proceeds - fees of the sale in the reporting currency.
NetProceedsAud(sale) ==
    Sub(SaleAmountAud(sale, Mul(sale.sharesSold, sale.salePricePerShare)),
        SaleAmountAud(sale, Add(OrZero(sale.brokerageCommission),
                                OrZero(sale.supplementalFees))))

RECURSIVE SumApplyingNet(_, _)
SumApplyingNet(event, sales) ==
    IF sales = <<>> THEN Zero
    ELSE Add(IF WithinThirtyDays(event, sales[1]) THEN NetProceedsAud(sales[1]) ELSE Zero,
             SumApplyingNet(event, Tail(sales)))

\* The call returned, some sale lies within 30 days of vesting, and the
\* sales within 30 days sum to sharesVested.
ApplyingSalesConsumeAll ==
    /\ Reconciled /\ IsOk(ret)
    /\ \E i \in 1..Len(call.saleEvents) : WithinThirtyDays(call.event, call.saleEvents[i])
    /\ SumApplyingShares(call.event, call.saleEvents) = call.event.sharesVested

\* C27: when the sales within 30 days sum to sharesVested, taxableIncome =
\* the sum of their (proceeds - fees) minus the vesting cost base, whatever
\* the vesting share price.
C27_FullSaleIncomeIsNetProceeds ==
    ApplyingSalesConsumeAll
        => /\ ret.taxableIncome =
                  Sub(SumApplyingNet(call.event, call.saleEvents),
                      DefaultZero(call.event.costBase))
           /\ calculateRsuVestingTaxableIncome(
                  [call.event EXCEPT !.sharePrice = Num(3)],
                  call.saleEvents).taxableIncome = ret.taxableIncome

\* C28: every accepted call of calculateRsuVestingTaxableIncome and of
\* processVestingAndSale returns numbers: no ratio of shares divides by 0.
C28_ResultsAreNumbers ==
    /\ (Reconciled /\ IsOk(ret)) => IsFinite(ret.taxableIncome)
    /\ (Returned("processVestingAndSale") /\ IsOk(ret))
           => (IsFinite(ret.taxableIncome) /\ IsFinite(ret.capitalGain))

\* The sale record has a release in the data and is dated within 30 days
\* of that release's date.
SoldWithinThirtyDaysOfRelease(releases, sale, found) ==
    /\ found # 0
    /\ WithinThirtyDays([vestDate |-> releases[found].releaseDate], sale)

\* The sale record is one the 30-day rule was applied to in the vesting
\* result.
CountedInVestingIncome(vestingResult, sale) ==
    /\ vestingResult.rsuRelease.releaseReferenceNumber = sale.originatingReleaseRef
    /\ SaleKey(sale.saleDate, sale.sharesSold)
           \in ProcessedThirtyDayRuleSales(<<vestingResult>>)

PageComputed == Returned("calculationResults") /\ IsOk(ret)

\* C29: no capital-gains event of the calculations page is for a sale dated
\* within 30 days of its originating release, and no sale is counted both
\* in the 30-day vesting income and in the capital gains.
C29_NoThirtyDaySaleInCapitalGains ==
    PageComputed =>
        \A i \in 1..Len(ret.capitalGains.events) :
            /\ ~SoldWithinThirtyDaysOfRelease(call.data.rsuReleases,
                    ret.capitalGains.events[i].sale,
                    FindRelease(call.data.rsuReleases,
                        ret.capitalGains.events[i].sale.originatingReleaseRef, 1))
            /\ \A k \in 1..Len(ret.vestingIncome.events) :
                   ~CountedInVestingIncome(ret.vestingIncome.events[k],
                                           ret.capitalGains.events[i].sale)

\* The collections in storage.
Stored == loadImportedData(localStorage)

DistinctWithdrawalRefs(sales) ==
    \A i, j \in 1..Len(sales) : i # j => sales[i].withdrawalRef # sales[j].withdrawalRef

\* C30: every call of addSalesRecords on stored sales with pairwise distinct
\* withdrawalRef (empty storage among them) leaves the stored sales with
\* pairwise distinct withdrawalRef and leaves vesting and rsuReleases as
\* they were.
C30_SalesDeduplicated ==
    [][call'.op = "addSalesRecords" /\ DistinctWithdrawalRefs(Stored.sales)
          => /\ DistinctWithdrawalRefs(Stored'.sales)
             /\ Stored'.vesting = Stored.vesting
             /\ Stored'.rsuReleases = Stored.rsuReleases]_vars

====
